---- MODULE Spec2Model ----
(***************************************************************************)
(* Model of draw.py: the shape editor's interaction state machine, its     *)
(* shape objects and the zoom coordinator.                                 *)
(*                                                                         *)
(* Numbers.  zoom_level is a Python float that is only ever changed by     *)
(* "+= 0.1" and "-= 0.1"; it is modelled as the exact IEEE-754 binary64    *)
(* value, counted in units of 2^-56 and held in two limbs <<hi, lo>>       *)
(* (value = hi * 2^28 + lo), because the guards of zoom_in and zoom_out    *)
(* compare it with 5.0 and 0.1.  Shape geometry is modelled in exact       *)
(* rational arithmetic <<numerator, denominator>>: the rounding of the     *)
(* coordinate arithmetic (relative error 2^-53) is not modelled, and where *)
(* geometry is scaled by the zoom factor it uses ZoomQ, the zoom factor    *)
(* rounded to the nearest tenth.  The angle of a shape is a Python float    *)
(* that the rotate drag computes with "(a + (b - c)) % 360"; it is held as  *)
(* the exact binary64 value in units of 2^-49, a signed limb pair, and the  *)
(* bearings of math.atan2 are tabulated for the pointer positions offered. *)
(* Where a claim is about contains_point as a function, the method is      *)
(* computed in binary64 as Python computes it: floats are records          *)
(* [s, m, e] of value s * m * 2^e with m a natural number in limbs, each    *)
(* operation rounded to nearest-even, math.cos and math.sin tabulated at   *)
(* the multiples of 90 degrees.                                            *)
(*                                                                         *)
(* Objects.  Python shape objects live in `obj` (identity -> fields);      *)
(* shapes, selected_shape and current_shape hold identities (0 = None).    *)
(* The canvas is its display list of item ids, bottom first, and the id    *)
(* the next created item gets.                                             *)
(*                                                                         *)
(* Events.  The toolkit delivers the pointer events of the canvas in       *)
(* gestures: a press, then motions, then the release; a double-click is a  *)
(* press that follows a press and its release.  The toolbar and the menu   *)
(* are reached with the pointer button up; the Delete key at any time.  A  *)
(* handler that opens the modal text editor on a press may lose that       *)
(* press's release to the editor window.                                   *)
(*                                                                         *)
(* Specifications.  Spec is the editor under all its events.  SpecZoom,    *)
(* SpecRotate, SpecResize, SpecAngle and SpecDraw start from a constructed *)
(* editor and offer the events and pointer positions of one scenario;      *)
(* SpecFrame starts from an editor in which one or two shapes have been    *)
(* created; SpecLine and SpecBox construct one shape and call              *)
(* contains_point once.                                                    *)
(***************************************************************************)
EXTENDS Integers, Sequences, FiniteSets, TLC

VARIABLES shapes,          \* App.shapes: sequence of object identities
          obj,             \* the shape objects: identity -> record of fields
          selected_shape,  \* App.selected_shape (0 = None)
          current_shape,   \* App.current_shape (0 = None)
          current_tool,    \* App.current_tool
          mode,            \* App.mode
          drag_data,       \* App.drag_data: a dict, keys = DOMAIN
          zoom_level,      \* App.zoom_level, binary64 in units of 2^-56
          edit_text_btn,   \* state of the "Edit Text" button
          canvas,          \* the canvas items: display list and next id
          image_item,      \* App.image_item (0 = None)
          error,           \* the last handler ended in an unhandled exception
          pointer,         \* the pointer button, and whether a press now can
                           \* be the second press of a double-click
          last,            \* history: the last handler that ran, its input and
                           \* the selection it found
          steps,           \* history: number of handlers run so far
          env              \* the inputs offered in this run (never changes)

vars == <<shapes, obj, selected_shape, current_shape, current_tool, mode,
          drag_data, zoom_level, edit_text_btn, canvas, image_item, error,
          pointer, last, steps, env>>

-----------------------------------------------------------------------------
(* Bounds of the model *)

\* handlers run in one behaviour of Spec
MaxSteps == 7
\* handlers other than the zoom buttons run in one behaviour of SpecZoom
MaxStepsZoom == 3
\* handlers run in one behaviour of SpecRotate
MaxStepsRotate == 7
\* handlers run in one behaviour of SpecResize
MaxStepsResize == 6
\* handlers run in one behaviour of SpecAngle
MaxStepsAngle == 7
\* handlers and calls of draw run in one behaviour of SpecDraw
MaxStepsDraw == 5
\* handlers run in one behaviour of SpecFrame
MaxStepsFrame == 4
\* shapes in the sequence
MaxShapes == 2
\* canvas items created in one behaviour of SpecZoom before the zoom buttons
\* are no longer pressed
MaxItems == 50

\* canvas positions offered to the pointer handlers: a point c, a point
\* below it, the point 50 to its right and the point 100 to its right
Points == { <<100, 100>>, <<100, 110>>, <<150, 100>>, <<200, 100>> }

\* contents the user may type into the text editor
Texts == { "ab" }

-----------------------------------------------------------------------------
(* Exact rational arithmetic for coordinates: <<numerator, denominator>>,  *)
(* in lowest terms, denominator positive                                   *)

RECURSIVE Gcd(_, _)
Gcd(a, b) == IF b = 0 THEN a ELSE Gcd(b, a % b)

Abs(i) == IF i < 0 THEN -i ELSE i

NormBy(n, d, g) == IF d < 0 THEN <<(-n) \div g, (-d) \div g>> ELSE <<n \div g, d \div g>>
Norm(n, d) == NormBy(n, d, Gcd(Abs(n), Abs(d)))

Q(i) == <<i, 1>>
RAddBy(a, b, g) == Norm(a[1] * (b[2] \div g) + b[1] * (a[2] \div g), (a[2] \div g) * b[2])
RAdd(a, b) == IF a[2] = 1 /\ b[2] = 1 THEN <<a[1] + b[1], 1>>
              ELSE RAddBy(a, b, Gcd(a[2], b[2]))
RNeg(a) == <<-a[1], a[2]>>
RSub(a, b) == RAdd(a, RNeg(b))
RMulBy(a, b, g1, g2) ==
    <<(a[1] \div g1) * (b[1] \div g2), (a[2] \div g2) * (b[2] \div g1)>>
RMul(a, b) == IF a[1] = 0 \/ b[1] = 0 THEN <<0, 1>>
              ELSE RMulBy(a, b, Gcd(Abs(a[1]), b[2]), Gcd(Abs(b[1]), a[2]))
Recip(b) == IF b[1] < 0 THEN <<-b[2], -b[1]>> ELSE <<b[2], b[1]>>
RDiv(a, b) == RMul(a, Recip(b))
RScale(a, i) == Norm(a[1] * i, a[2])
RHalf(a) == IF a[1] % 2 = 0 THEN <<a[1] \div 2, a[2]>> ELSE <<a[1], 2 * a[2]>>
RSq(a) == <<a[1] * a[1], a[2] * a[2]>>
RAbs(a) == <<Abs(a[1]), a[2]>>

\* floor(n / d) for d > 0
Floor(n, d) == IF n >= 0 THEN n \div d ELSE -((-n + d - 1) \div d)

\* n1/d1 <= n2/d2 by comparing the integer parts, then the reciprocals of
\* the fractional parts: no product of the two fractions is formed
RECURSIVE FracLe(_, _, _, _)
FracLeBy(n1, d1, n2, d2, q1, q2) ==
    IF q1 # q2 THEN q1 < q2
    ELSE IF n1 - q1 * d1 = 0 THEN TRUE
    ELSE IF n2 - q2 * d2 = 0 THEN FALSE
    ELSE FracLe(d2, n2 - q2 * d2, d1, n1 - q1 * d1)
FracLe(n1, d1, n2, d2) == FracLeBy(n1, d1, n2, d2, Floor(n1, d1), Floor(n2, d2))

RLe(a, b) == IF a[2] = b[2] THEN a[1] <= b[1] ELSE FracLe(a[1], a[2], b[1], b[2])
RLt(a, b) == ~RLe(b, a)
RMax(a, b) == IF RLt(a, b) THEN b ELSE a

\* Python int(): truncation towards zero
Trunc(a) == IF a[1] >= 0 THEN a[1] \div a[2] ELSE -((-a[1]) \div a[2])

\* C (int)(x + .5) for x >= 0, (int)(x - .5) otherwise: the toolkit's
\* rounding of a coordinate to a pixel
RoundPx(a) == IF a[1] >= 0 THEN (2 * a[1] + a[2]) \div (2 * a[2])
              ELSE -((2 * (-a[1]) + a[2]) \div (2 * a[2]))

RECURSIVE ISqrtFrom(_, _)
ISqrtFrom(n, r) == IF (r + 1) * (r + 1) > n THEN r ELSE ISqrtFrom(n, r + 1)
\* floor of the square root
ISqrt(n) == ISqrtFrom(n, 0)
IsSquare(n) == ISqrt(n) * ISqrt(n) = n

\* dx^2 + dy^2
HypotSq(dx, dy) == RAdd(RSq(dx), RSq(dy))
\* math.hypot(dx, dy) is rational
HypotExactSq(h) == IsSquare(h[1]) /\ IsSquare(h[2])
HypotExact(dx, dy) == dx[1] = 0 \/ dy[1] = 0 \/ HypotExactSq(HypotSq(dx, dy))
\* math.hypot(dx, dy) where it is rational
HypotOfSq(h) == <<ISqrt(h[1]), ISqrt(h[2])>>
Hypot(dx, dy) ==
    IF dx[1] = 0 THEN RAbs(dy)
    ELSE IF dy[1] = 0 THEN RAbs(dx)
    ELSE HypotOfSq(HypotSq(dx, dy))

-----------------------------------------------------------------------------
(* zoom_level as an IEEE-754 binary64, in units of 2^-56, limbs of 28 bits *)

RECURSIVE BitLen(_)
BitLen(n) == IF n = 0 THEN 0 ELSE 1 + BitLen(n \div 2)

RECURSIVE Pow2(_)
Pow2(e) == IF e = 0 THEN 1 ELSE 2 * Pow2(e - 1)

Limb == Pow2(28)

\* <<hi, lo>> rounded to a multiple of ulp, ties to even
FRoundTo(hi, lo, ulp) ==
    IF 2 * (lo % ulp) > ulp
       \/ (2 * (lo % ulp) = ulp /\ ((lo - (lo % ulp)) \div ulp) % 2 = 1)
    THEN (IF lo - (lo % ulp) + ulp >= Limb
          THEN <<hi + 1, lo - (lo % ulp) + ulp - Limb>>
          ELSE <<hi, lo - (lo % ulp) + ulp>>)
    ELSE <<hi, lo - (lo % ulp)>>

\* round-to-nearest-even of the exact value <<hi, lo>> to 53 significant bits
FRound(hi, lo) ==
    FRoundTo(hi, lo, IF BitLen(hi) + 28 > 53 THEN Pow2(BitLen(hi) + 28 - 53) ELSE 1)

\* a + b
FAdd(a, b) ==
    IF a[2] + b[2] >= Limb THEN FRound(a[1] + b[1] + 1, a[2] + b[2] - Limb)
    ELSE FRound(a[1] + b[1], a[2] + b[2])

\* a - b for a >= b
FSub(a, b) ==
    IF a[2] - b[2] < 0 THEN FRound(a[1] - b[1] - 1, a[2] - b[2] + Limb)
    ELSE FRound(a[1] - b[1], a[2] - b[2])

FLt(a, b) == a[1] < b[1] \/ (a[1] = b[1] /\ a[2] < b[2])

-----------------------------------------------------------------------------
(* Angles as IEEE-754 binary64, in units of 2^-49, limbs of 28 bits; a      *)
(* negative value has a negative high limb (value = hi * 2^28 + lo with     *)
(* 0 <= lo < 2^28).  Every bearing of magnitude 8 or more, and every sum    *)
(* and difference of such values, is a multiple of 2^-49.                   *)

\* the high limb of the float 1.0
Degree == Pow2(21)

\* the float of the whole number n
FDeg(n) == <<n * Degree, 0>>

\* the whole number of degrees in a, for a float that holds a whole number
WholeDegrees(a) == a[1] \div Degree

\* -a
FNeg(a) == IF a[2] = 0 THEN <<-a[1], 0>> ELSE <<-a[1] - 1, Limb - a[2]>>

\* the exact sum a + b
FSum(a, b) ==
    IF a[2] + b[2] >= Limb THEN <<a[1] + b[1] + 1, a[2] + b[2] - Limb>>
    ELSE <<a[1] + b[1], a[2] + b[2]>>

\* round-to-nearest-even of the exact value a of either sign to 53 bits
FRoundSigned(a) ==
    IF a[1] < 0 THEN FNeg(FRound(FNeg(a)[1], FNeg(a)[2])) ELSE FRound(a[1], a[2])

\* the float operations a + b and a - b on values of either sign
FAddSigned(a, b) == FRoundSigned(FSum(a, b))
FSubSigned(a, b) == FRoundSigned(FSum(a, FNeg(b)))

\* math.fmod(p, 360.0) for 0 <= p < 1080: exact
FmodTurn(p) ==
    IF p[1] >= 720 * Degree THEN FSum(p, FDeg(-720))
    ELSE IF p[1] >= 360 * Degree THEN FSum(p, FDeg(-360))
    ELSE p

\* Python's a % 360 for a float a: the remainder of fmod, to which 360.0 is
\* added, in floating point, when it is negative
PyMod360(a) ==
    IF a[1] >= 0 THEN FmodTurn(a)
    ELSE IF FmodTurn(FNeg(a)) = <<0, 0>> THEN <<0, 0>>
    ELSE FAddSigned(FNeg(FmodTurn(FNeg(a))), FDeg(360))

-----------------------------------------------------------------------------
(* Trigonometry at the angles the shapes are drawn at (multiples of 90) *)

Cos(a) == CASE a % 360 = 0 -> 1 [] a % 360 = 90 -> 0
            [] a % 360 = 180 -> -1 [] a % 360 = 270 -> 0
Sin(a) == CASE a % 360 = 0 -> 0 [] a % 360 = 90 -> 1
            [] a % 360 = 180 -> 0 [] a % 360 = 270 -> -1

\* <<dx cos a - dy sin a, dx sin a + dy cos a>> for a whole number a of degrees
Rotated(dx, dy, a) ==
    <<RSub(RScale(dx, Cos(a)), RScale(dy, Sin(a))),
      RAdd(RScale(dx, Sin(a)), RScale(dy, Cos(a)))>>

\* the point (x, y) translated by the offset d
Translated(x, y, d) == <<RAdd(x, d[1]), RAdd(y, d[2])>>

\* the local offsets pts rotated by a and translated to (x, y)
RotatedPolygon(x, y, pts, a) ==
    [i \in DOMAIN pts |-> Translated(x, y, Rotated(pts[i][1], pts[i][2], a))]

\* the bearing math.degrees(math.atan2(dy, dx)) is a multiple of 90
AxisAligned(dx, dy) == dx[1] = 0 \/ dy[1] = 0
\* math.degrees(math.atan2(dy, dx)) as a binary64: exact on the axes, and the
\* values the C library returns for three offsets off the axes
Atan2Deg(dy, dx) ==
    IF dy[1] = 0 THEN (IF dx[1] >= 0 THEN FDeg(0) ELSE FDeg(180))
    ELSE IF dx[1] = 0 THEN (IF dy[1] > 0 THEN FDeg(90) ELSE FDeg(-90))
    ELSE CASE dy = Q(-30) /\ dx = Q(-30) -> FDeg(-135)
           [] dy = Q(-30) /\ dx = Q(-10) -> <<-227404570, 55327616>>
                                             \* -108.43494882292202
           [] dy = Q(20) /\ dx = Q(10) -> <<133032729, 213107832>>
                                             \* 63.43494882292201

one_point_zero == <<268435456, 0>>     \* the float 1.0
zoom_step == <<26843545, 161061274>>   \* the float 0.1
min_zoom == <<26843545, 161061274>>    \* the float 0.1
max_zoom == <<1342177280, 0>>          \* the float 5.0

\* the zoom factor in tenths, rounded to the nearest tenth
ZoomTenths(z) == ((z[1] \div 256) * 10 + 524288) \div 1048576

\* denominator of the positive rational that stands for a zoom factor below
\* 0.05 (the float 5 * 2^-55 that ten zoom_out calls reach)
TinyDen == 1000

\* the zoom factor as the rational that scales geometry
ZoomQ(z) == IF ZoomTenths(z) = 0 THEN <<1, TinyDen>> ELSE Norm(ZoomTenths(z), 10)

-----------------------------------------------------------------------------
(* Dicts *)

EmptyDict == [k \in {} |-> 0]
Put(d, k, v) == (k :> v) @@ d
Del(d, ks) == [k \in (DOMAIN d) \ ks |-> d[k]]
Get(d, k, default) == IF k \in DOMAIN d THEN d[k] ELSE default

-----------------------------------------------------------------------------
(* Canvas geometry of the host toolkit *)

\* canvas.bbox of a handle rectangle with corners (cx - hs, cy - hs) and
\* (cx + hs, cy + hs): the corners rounded to pixels, grown by the 1-pixel
\* outline
RectItemBBox(cx, cy, hs) ==
    <<RoundPx(RSub(cx, Q(hs))) - 1, RoundPx(RSub(cy, Q(hs))) - 1,
      RoundPx(RAdd(cx, Q(hs))) + 1, RoundPx(RAdd(cy, Q(hs))) + 1>>

\* the pixel size of a font of the given size (size 0 selects the toolkit's
\* default size)
FontPx(font_size) == IF font_size = 0 THEN 12 ELSE font_size

\* canvas.bbox of a text item anchored "nw" at pixel (x, y): the measured
\* layout (one font pixel size per glyph column and per line) plus one pixel
\* each side for the insertion cursor
TextItemBBoxAt(x, y, text, px) == <<x - 1, y, x + Len(text) * px + 1, y + px>>
TextItemBBox(x, y, text, font_size) ==
    TextItemBBoxAt(RoundPx(x), RoundPx(y), text, FontPx(font_size))

InBBox(bb, cx, cy) == bb[1] <= cx /\ cx <= bb[3] /\ bb[2] <= cy /\ cy <= bb[4]

-----------------------------------------------------------------------------
(* Binary64 arithmetic on values of any magnitude.  A natural number is a  *)
(* sequence of limbs, least significant first, in base 2^15, without       *)
(* leading zero limbs.  A float is [s |-> 1 or -1, m |-> natural, e |->    *)
(* exponent] with the value s * m * 2^e; m has at most 53 bits, and a      *)
(* value may have several such forms.  Exponents are not bounded: no       *)
(* operation here overflows or underflows.                                 *)

NatBase == 32768

RECURSIVE NatTrim(_)
NatTrim(a) ==
    IF a # <<>> /\ a[Len(a)] = 0 THEN NatTrim(SubSeq(a, 1, Len(a) - 1)) ELSE a

\* the natural number n
RECURSIVE NatOf(_)
NatOf(n) == IF n = 0 THEN <<>> ELSE <<n % NatBase>> \o NatOf(n \div NatBase)

NatLimb(a, i) == IF i <= Len(a) THEN a[i] ELSE 0

\* the limbs from i on of a + b + c
RECURSIVE NatAddFrom(_, _, _, _)
NatAddFrom(a, b, i, c) ==
    IF i > Len(a) /\ i > Len(b) THEN (IF c = 0 THEN <<>> ELSE <<c>>)
    ELSE <<(NatLimb(a, i) + NatLimb(b, i) + c) % NatBase>>
         \o NatAddFrom(a, b, i + 1, (NatLimb(a, i) + NatLimb(b, i) + c) \div NatBase)
NatAdd(a, b) == NatAddFrom(a, b, 1, 0)

\* the limbs from i on of a - b - c, for a >= b
RECURSIVE NatSubFrom(_, _, _, _)
NatSubFrom(a, b, i, c) ==
    IF i > Len(a) THEN <<>>
    ELSE <<(a[i] - NatLimb(b, i) - c + NatBase) % NatBase>>
         \o NatSubFrom(a, b, i + 1, IF a[i] - NatLimb(b, i) - c < 0 THEN 1 ELSE 0)
NatSub(a, b) == NatTrim(NatSubFrom(a, b, 1, 0))

\* a < b, decided at the highest limb that differs
RECURSIVE NatLtFrom(_, _, _)
NatLtFrom(a, b, i) ==
    IF i = 0 THEN FALSE
    ELSE IF a[i] # b[i] THEN a[i] < b[i]
    ELSE NatLtFrom(a, b, i - 1)
NatLt(a, b) == IF Len(a) # Len(b) THEN Len(a) < Len(b) ELSE NatLtFrom(a, b, Len(a))
NatLe(a, b) == ~NatLt(b, a)

\* a * d for a limb d
RECURSIVE NatMulLimbFrom(_, _, _, _)
NatMulLimbFrom(a, d, i, c) ==
    IF i > Len(a) THEN (IF c = 0 THEN <<>> ELSE <<c>>)
    ELSE <<(a[i] * d + c) % NatBase>>
         \o NatMulLimbFrom(a, d, i + 1, (a[i] * d + c) \div NatBase)
NatMulLimb(a, d) == IF d = 0 THEN <<>> ELSE NatMulLimbFrom(a, d, 1, 0)

\* a * NatBase^k
NatShiftLimbs(a, k) == IF a = <<>> THEN <<>> ELSE [i \in 1..k |-> 0] \o a

RECURSIVE NatMulFrom(_, _, _)
NatMulFrom(a, b, i) ==
    IF i > Len(b) THEN <<>>
    ELSE NatAdd(NatShiftLimbs(NatMulLimb(a, b[i]), i - 1), NatMulFrom(a, b, i + 1))
NatMul(a, b) == NatMulFrom(a, b, 1)

\* the number of bits of a
NatBits(a) == IF a = <<>> THEN 0 ELSE 15 * (Len(a) - 1) + BitLen(a[Len(a)])

\* a * 2^k
NatShl(a, k) == NatShiftLimbs(NatMulLimb(a, Pow2(k % 15)), k \div 15)

\* the limbs up to i of floor((r * NatBase^i + a) / d) for a limb d
RECURSIVE NatDivLimbFrom(_, _, _, _)
NatDivLimbFrom(a, d, i, r) ==
    IF i = 0 THEN <<>>
    ELSE NatDivLimbFrom(a, d, i - 1, (r * NatBase + a[i]) % d)
         \o <<(r * NatBase + a[i]) \div d>>

\* floor(a / 2^k)
NatShr(a, k) ==
    IF k \div 15 >= Len(a) THEN <<>>
    ELSE NatTrim(NatDivLimbFrom(SubSeq(a, k \div 15 + 1, Len(a)), Pow2(k % 15),
                                Len(a) - k \div 15, 0))

\* bit i of a, bit 0 the lowest
NatBit(a, i) == (NatLimb(a, i \div 15 + 1) \div Pow2(i % 15)) % 2

\* one step of long division by b: the quotient q2 and the remainder r2,
\* both already doubled and r2 with the next bit of the dividend added
NatDivModWith(b, q2, r2) ==
    IF NatLe(b, r2) THEN <<NatAdd(q2, <<1>>), NatSub(r2, b)>> ELSE <<q2, r2>>
NatDivModStep(a, b, qr, i) ==
    NatDivModWith(b, NatAdd(qr[1], qr[1]),
                  NatAdd(NatAdd(qr[2], qr[2]), NatOf(NatBit(a, i))))

\* long division of a by b over the bits hi down to lo of a, from the
\* quotient and remainder qr of the bits above hi
RECURSIVE NatDivModOver(_, _, _, _, _)
NatDivModOver(a, b, qr, hi, lo) ==
    IF Len(qr) = 2 /\ hi = lo THEN NatDivModStep(a, b, qr, hi)
    ELSE NatDivModOver(a, b,
                       NatDivModOver(a, b, qr, hi, (hi + lo) \div 2 + 1),
                       (hi + lo) \div 2, lo)

\* <<floor(a / b), a mod b>>
NatDivMod(a, b) ==
    IF a = <<>> THEN << <<>>, <<>> >>
    ELSE NatDivModOver(a, b, << <<>>, <<>> >>, NatBits(a) - 1, 0)

\* one step of the root of a: bit i is set in the root r so far if the
\* square stays within a
NatSqrtWith(a, r, c) == IF NatLe(NatMul(c, c), a) THEN c ELSE r
NatSqrtStep(a, r, i) == NatSqrtWith(a, r, NatAdd(r, NatShl(<<1>>, i)))

\* the root of a over its bits hi down to lo, from the root r of the bits
\* above hi
RECURSIVE NatSqrtOver(_, _, _, _)
NatSqrtOver(a, r, hi, lo) ==
    IF Len(r) >= 0 /\ hi = lo THEN NatSqrtStep(a, r, hi)
    ELSE NatSqrtOver(a, NatSqrtOver(a, r, hi, (hi + lo) \div 2 + 1),
                     (hi + lo) \div 2, lo)

\* floor(sqrt(a))
NatSqrt(a) == NatSqrtOver(a, <<>>, NatBits(a) \div 2, 0)

\* m with its k lowest bits rounded away, to nearest, ties to even; q is
\* floor(m / 2^k)
NatRoundedTo(m, k, q) ==
    IF NatLt(NatShl(<<1>>, k - 1), NatSub(m, NatShl(q, k)))
       \/ (NatSub(m, NatShl(q, k)) = NatShl(<<1>>, k - 1) /\ NatBit(q, 0) = 1)
    THEN NatAdd(q, <<1>>)
    ELSE q

\* s * m * 2^e rounded to 53 significant bits
B64Round(s, m, e) ==
    IF NatBits(m) <= 53 THEN [s |-> s, m |-> m, e |-> e]
    ELSE [s |-> s, m |-> NatRoundedTo(m, NatBits(m) - 53, NatShr(m, NatBits(m) - 53)),
          e |-> e + NatBits(m) - 53]

\* the float of the integer n
B64OfInt(n) == [s |-> IF n < 0 THEN -1 ELSE 1, m |-> NatOf(Abs(n)), e |-> 0]

B64Neg(x) == [x EXCEPT !.s = -x.s]

\* the exact values x + y and x * y, not rounded
ExactSumAt(s1, m1, s2, m2, e) ==
    IF s1 = s2 THEN [s |-> s1, m |-> NatAdd(m1, m2), e |-> e]
    ELSE IF NatLe(m2, m1) THEN [s |-> s1, m |-> NatSub(m1, m2), e |-> e]
    ELSE [s |-> s2, m |-> NatSub(m2, m1), e |-> e]
ExactSum(x, y) ==
    IF x.e <= y.e THEN ExactSumAt(x.s, x.m, y.s, NatShl(y.m, y.e - x.e), x.e)
    ELSE ExactSumAt(x.s, NatShl(x.m, x.e - y.e), y.s, y.m, y.e)
ExactProduct(x, y) == [s |-> x.s * y.s, m |-> NatMul(x.m, y.m), e |-> x.e + y.e]

\* the float nearest to the exact value x
B64Nearest(x) == B64Round(x.s, x.m, x.e)

\* x + y, x - y and x * y
B64Add(x, y) == B64Nearest(ExactSum(x, y))
B64Sub(x, y) == B64Add(x, B64Neg(y))
B64Mul(x, y) == B64Nearest(ExactProduct(x, y))

\* the quotient and remainder qr of (m * 2^k) / d as a float: the remainder
\* adds a bit below the quotient's last one
B64OfQuotient(s, qr, e) ==
    B64Round(s, NatAdd(NatAdd(qr[1], qr[1]), IF qr[2] = <<>> THEN <<>> ELSE <<1>>), e - 1)

\* the number of bits by which the dividend a is extended for a quotient by b
\* of 55 bits or more
QuotientShift(a, b) == IF 56 + NatBits(b) - NatBits(a) > 0 THEN 56 + NatBits(b) - NatBits(a) ELSE 0

\* x / y for y # 0
B64Div(x, y) ==
    IF x.m = <<>> THEN x
    ELSE B64OfQuotient(x.s * y.s,
                       NatDivMod(NatShl(x.m, QuotientShift(x.m, y.m)), y.m),
                       x.e - y.e - QuotientShift(x.m, y.m))

\* x > 0, x < y and x <= y, for exact values and so for floats
B64Positive(x) == x.m # <<>> /\ x.s = 1
B64Lt(x, y) == B64Positive(ExactSum(y, B64Neg(x)))
B64Le(x, y) == ~B64Lt(y, x)

\* the root r of floor(sqrt(n)) as a float times 2^e: a bit is added below the
\* root's last one when the root is not exact
B64OfRoot(n, r, e) ==
    B64Round(1, NatAdd(NatAdd(r, r), IF NatMul(r, r) = n THEN <<>> ELSE <<1>>), e - 1)

\* the number of bits, even, by which n is extended for a root of 55 bits or
\* more
RootShift(n) == IF NatBits(n) < 112 THEN 2 * ((113 - NatBits(n)) \div 2) ELSE 0

\* sqrt(n * 2^e) for an even e
B64SqrtEven(n, e) ==
    IF n = <<>> THEN B64OfInt(0)
    ELSE B64OfRoot(NatShl(n, RootShift(n)), NatSqrt(NatShl(n, RootShift(n))),
                   (e - RootShift(n)) \div 2)

\* sqrt(x) for x >= 0, correctly rounded
B64Sqrt(x) ==
    IF x.e % 2 = 0 THEN B64SqrtEven(x.m, x.e) ELSE B64SqrtEven(NatAdd(x.m, x.m), x.e - 1)

\* math.hypot(x, y): the correctly rounded root of the exact x^2 + y^2
B64Hypot(x, y) == B64Sqrt(ExactSum(ExactProduct(x, x), ExactProduct(y, y)))

B64Abs(x) == [x EXCEPT !.s = 1]

\* the float nearest to the rational q
B64OfQ(q) == B64Div(B64OfInt(q[1]), B64OfInt(q[2]))

\* the end of LineShape.contains_point, were u clamped to [0, 1]
NearAtClamped(px, py, x1, y1, ex, ey, u) ==
    IF B64Lt(u, B64OfInt(0))
    THEN B64Le(B64Hypot(B64Sub(px, x1), B64Sub(py, y1)), B64OfInt(5))
    ELSE IF B64Lt(B64OfInt(1), u)
    THEN B64Le(B64Hypot(B64Sub(px, B64Add(x1, ex)), B64Sub(py, B64Add(y1, ey))),
               B64OfInt(5))
    ELSE B64Le(B64Hypot(B64Sub(px, B64Add(x1, B64Mul(u, ex))),
                        B64Sub(py, B64Add(y1, B64Mul(u, ey)))),
               B64OfInt(5))

\* the end of LineShape.contains_point, in binary64: the point at parameter u
\* of the segment from (x1, y1) along (ex, ey) is within 5 of (px, py)
NearAtBinary64(px, py, x1, y1, ex, ey, u) ==
    IF B64Lt(u, B64OfInt(0)) \/ B64Lt(B64OfInt(1), u) THEN FALSE
    ELSE B64Le(B64Hypot(B64Sub(px, B64Add(x1, B64Mul(u, ex))),
                        B64Sub(py, B64Add(y1, B64Mul(u, ey)))),
               B64OfInt(5))

NearSegmentBinary64(px, py, x1, y1, ex, ey, line_len) ==
    IF line_len.m = <<>>
    THEN /\ B64Lt(B64Abs(B64Sub(px, x1)), B64OfInt(5))
         /\ B64Lt(B64Abs(B64Sub(py, y1)), B64OfInt(5))
    ELSE NearAtBinary64(px, py, x1, y1, ex, ey,
                        B64Div(B64Add(B64Mul(B64Sub(px, x1), ex),
                                      B64Mul(B64Sub(py, y1), ey)),
                               B64Mul(line_len, line_len)))

\* LineShape.contains_point in binary64, on floats
LineContainsAt(px, py, x1, y1, ex, ey) ==
    NearSegmentBinary64(px, py, x1, y1, ex, ey, B64Hypot(ex, ey))

\* LineShape.contains_point in binary64; px, py are rationals
LineContainsBinary64(s, px, py) ==
    LineContainsAt(B64OfQ(px), B64OfQ(py), B64OfQ(s.x1), B64OfQ(s.y1),
                   B64Sub(B64OfQ(s.x2), B64OfQ(s.x1)),
                   B64Sub(B64OfQ(s.y2), B64OfQ(s.y1)))

-----------------------------------------------------------------------------
(* Shape classes *)

RectangleShape(x, y, width, height) ==
    [kind |-> "rectangle", selected |-> FALSE, handles |-> <<>>, item |-> 0,
     base_x |-> x, base_y |-> y, base_width |-> width, base_height |-> height,
     x |-> x, y |-> y, width |-> width, height |-> height, angle |-> FDeg(0)]

CircleShape(x, y, radius) ==
    [kind |-> "circle", selected |-> FALSE, handles |-> <<>>, item |-> 0,
     base_x |-> x, base_y |-> y, base_radius |-> radius,
     x |-> x, y |-> y, radius |-> radius]

HourglassShape(x, y, width, height) ==
    [kind |-> "hourglass", selected |-> FALSE, handles |-> <<>>, item |-> 0,
     base_x |-> x, base_y |-> y, base_width |-> width, base_height |-> height,
     x |-> x, y |-> y, width |-> width, height |-> height, angle |-> FDeg(0)]

LineShape(x1, y1, x2, y2) ==
    [kind |-> "line", selected |-> FALSE, handles |-> <<>>, item |-> 0,
     base_x1 |-> x1, base_y1 |-> y1, base_x2 |-> x2, base_y2 |-> y2,
     x1 |-> x1, y1 |-> y1, x2 |-> x2, y2 |-> y2]

\* bbox = <<>> stands for None
TextShape(x, y, text, font_size) ==
    [kind |-> "text", selected |-> FALSE, handles |-> <<>>, item |-> 0,
     base_x |-> x, base_y |-> y, base_font_size |-> Q(font_size),
     x |-> x, y |-> y, text |-> text, font_size |-> font_size, angle |-> FDeg(0),
     bbox |-> <<>>]

\* the local corner offsets (-w2,-h2), (w2,-h2), (w2,h2), (-w2,h2)
RectLocalPts(w2, h2) ==
    << <<RNeg(w2), RNeg(h2)>>, <<w2, RNeg(h2)>>, <<w2, h2>>, <<RNeg(w2), h2>> >>

\* RectangleShape.get_corners: the corner points in order
get_corners(s) ==
    RotatedPolygon(s.x, s.y, RectLocalPts(RHalf(s.width), RHalf(s.height)), WholeDegrees(s.angle))

\* the local offsets TL, BR, BL, TR, TL
\* the local points of the hourglass, were they ordered around the box
HourglassAroundBox(w2, h2) ==
    << <<RNeg(w2), RNeg(h2)>>, <<w2, RNeg(h2)>>, <<w2, h2>>,
       <<RNeg(w2), h2>>, <<RNeg(w2), RNeg(h2)>> >>

HourglassLocalPts(w2, h2) ==
    << <<RNeg(w2), RNeg(h2)>>, <<w2, h2>>, <<RNeg(w2), h2>>,
       <<w2, RNeg(h2)>>, <<RNeg(w2), RNeg(h2)>> >>

\* HourglassShape._get_coords: the five points of the closed bowtie
_get_coords(s) ==
    RotatedPolygon(s.x, s.y, HourglassLocalPts(RHalf(s.width), RHalf(s.height)), WholeDegrees(s.angle))

\* the edge a -> b is crossed by the ray from (px, py)
EdgeCrossed(px, py, a, b) ==
    /\ (RLt(py, a[2])) # (RLt(py, b[2]))
    /\ RLt(px, RAdd(a[1], RDiv(RMul(RSub(py, a[2]), RSub(b[1], a[1])),
                               RSub(b[2], a[2]))))

\* _point_in_polygon: even-odd rule over the edges i -> (i+1) % n
_point_in_polygon(px, py, coords) ==
    Cardinality({ i \in 1..Len(coords) :
                    EdgeCrossed(px, py, coords[i], coords[(i % Len(coords)) + 1]) }) % 2 = 1

\* the local point l lies in the box of half extents w2, h2
InLocalBox(l, w2, h2) == RLe(RAbs(l[1]), w2) /\ RLe(RAbs(l[2]), h2)

\* RectangleShape.contains_point
RectangleContains(s, px, py) ==
    InLocalBox(Rotated(RSub(px, s.x), RSub(py, s.y), -WholeDegrees(s.angle)),
               RHalf(s.width), RHalf(s.height))

\* CircleShape.contains_point
CircleContains(s, px, py) ==
    RLe(RAdd(RSq(RSub(px, s.x)), RSq(RSub(py, s.y))), RSq(s.radius))

\* the point at parameter u of the segment from (x1, y1) along (ex, ey) is
\* within 5 of (px, py)
NearAt(px, py, x1, y1, ex, ey, u) ==
    IF RLt(u, Q(0)) \/ RLt(Q(1), u) THEN FALSE
    ELSE RLe(HypotSq(RSub(px, RAdd(x1, RMul(u, ex))),
                     RSub(py, RAdd(y1, RMul(u, ey)))), Q(25))

NearSegment(px, py, x1, y1, ex, ey) ==
    IF ex[1] = 0 /\ ey[1] = 0
    THEN RLt(RAbs(RSub(px, x1)), Q(5)) /\ RLt(RAbs(RSub(py, y1)), Q(5))
    ELSE NearAt(px, py, x1, y1, ex, ey,
                RDiv(RAdd(RMul(RSub(px, x1), ex), RMul(RSub(py, y1), ey)),
                     HypotSq(ex, ey)))

\* LineShape.contains_point
LineContains(s, px, py) ==
    NearSegment(px, py, s.x1, s.y1, RSub(s.x2, s.x1), RSub(s.y2, s.y1))

\* TextShape.contains_point
TextContains(s, px, py) ==
    IF s.bbox # <<>>
    THEN RLe(Q(s.bbox[1]), px) /\ RLe(px, Q(s.bbox[3]))
         /\ RLe(Q(s.bbox[2]), py) /\ RLe(py, Q(s.bbox[4]))
    ELSE FALSE

\* contains_point of each class; px, py are rationals
contains_point(s, px, py) ==
    CASE s.kind = "rectangle" -> RectangleContains(s, px, py)
      [] s.kind = "circle" -> CircleContains(s, px, py)
      [] s.kind = "hourglass" -> _point_in_polygon(px, py, _get_coords(s))
      [] s.kind = "line" -> LineContains(s, px, py)
      [] s.kind = "text" -> TextContains(s, px, py)

\* index of the first element of pts that is maximal (sign = 1) or minimal
\* (sign = -1) in coordinate c, as Python's max(key=) and min(key=) pick it
FirstExtreme(pts, c, sign) ==
    CHOOSE i \in 1..Len(pts) :
        /\ \A j \in 1..Len(pts) :
              IF sign = 1 THEN RLe(pts[j][c], pts[i][c]) ELSE RLe(pts[i][c], pts[j][c])
        /\ \A j \in 1..(i - 1) :
              IF sign = 1 THEN RLt(pts[j][c], pts[i][c]) ELSE RLt(pts[i][c], pts[j][c])

\* the handles dict in insertion order: a sequence of <<name, bounding box
\* of the handle's canvas item, id of the item>>; here "resize" centred at p
\* and "rotate" centred 20 above q, the items being n and n + 1
ResizeRotateHandles(s, p, q, n) ==
    [s EXCEPT !.handles =
        << <<"resize", RectItemBBox(p[1], p[2], 6), n>>,
           <<"rotate", RectItemBBox(q[1], RSub(q[2], Q(20)), 6), n + 1>> >>]

Midpoint(p, q) == <<RHalf(RAdd(p[1], q[1])), RHalf(RAdd(p[2], q[2]))>>

\* RectangleShape.draw_handles after delete_handles
RectangleHandles(s, pts, n) ==
    ResizeRotateHandles(s, pts[3], Midpoint(pts[1], pts[2]), n)

\* CircleShape.draw_handles after delete_handles
CircleHandles(s, n) ==
    ResizeRotateHandles(s, <<RAdd(s.x, s.radius), s.y>>, <<s.x, RSub(s.y, s.radius)>>, n)

\* HourglassShape.draw_handles after delete_handles; pts are the first four
\* points
HourglassHandles(s, pts, n) ==
    ResizeRotateHandles(s, pts[FirstExtreme(pts, 1, 1)], pts[FirstExtreme(pts, 2, -1)], n)

\* LineShape.draw_handles after delete_handles
LineHandles(s, n) ==
    [s EXCEPT !.handles = << <<"end1", RectItemBBox(s.x1, s.y1, 5), n>>,
                             <<"end2", RectItemBBox(s.x2, s.y2, 5), n + 1>> >>]

\* TextShape.draw_handles after delete_handles
TextHandles(s, n) ==
    IF s.bbox = <<>> THEN s
    ELSE [s EXCEPT
            !.handles =
                << <<"bbox", <<s.bbox[1] - 1, s.bbox[2] - 1,
                               s.bbox[3] + 1, s.bbox[4] + 1>>, n>>,
                   <<"resize", RectItemBBox(Q(s.bbox[3]), Q(s.bbox[4]), 6), n + 1>> >>,
            !.bbox = TextItemBBox(s.x, s.y, s.text, s.font_size)]

\* draw_handles of each class after delete_handles: the shape with the
\* handles it creates, the canvas giving them the ids n, n + 1
NewHandles(s, n) ==
    CASE s.kind = "rectangle" -> RectangleHandles(s, get_corners(s), n)
      [] s.kind = "circle" -> CircleHandles(s, n)
      [] s.kind = "hourglass" -> HourglassHandles(s, SubSeq(_get_coords(s), 1, 4), n)
      [] s.kind = "line" -> LineHandles(s, n)
      [] s.kind = "text" -> TextHandles(s, n)

\* apply_zoom's loop with only the positions rescaled
ScaledPositionOnly(s, z) ==
    IF s.kind = "line"
    THEN [s EXCEPT !.x1 = RMul(s.base_x1, z), !.y1 = RMul(s.base_y1, z)]
    ELSE [s EXCEPT !.x = RMul(s.base_x, z), !.y = RMul(s.base_y, z)]

\* the assignments of apply_zoom's loop for each class
Scaled(s, z) ==
    CASE s.kind \in {"rectangle", "hourglass"} ->
           [s EXCEPT !.x = RMul(s.base_x, z), !.y = RMul(s.base_y, z),
                     !.width = RMul(s.base_width, z),
                     !.height = RMul(s.base_height, z)]
      [] s.kind = "circle" ->
           [s EXCEPT !.x = RMul(s.base_x, z), !.y = RMul(s.base_y, z),
                     !.radius = RMul(s.base_radius, z)]
      [] s.kind = "line" ->
           [s EXCEPT !.x1 = RMul(s.base_x1, z), !.y1 = RMul(s.base_y1, z),
                     !.x2 = RMul(s.base_x2, z), !.y2 = RMul(s.base_y2, z)]
      [] s.kind = "text" ->
           [s EXCEPT !.x = RMul(s.base_x, z), !.y = RMul(s.base_y, z),
                     !.font_size = Trunc(RMul(s.base_font_size, z))]

-----------------------------------------------------------------------------
(* contains_point and the corners of the rotated shapes in binary64, at    *)
(* angles that are multiples of 90 degrees                                 *)

\* the floats 6.123233995736766e-17, 1.2246467991473532e-16 and
\* 1.8369701987210297e-16
Cos90 == [s |-> 1, m |-> <<23559, 26152, 6296, 141>>, e |-> -106]
Sin180 == [s |-> 1, m |-> <<23559, 26152, 6296, 141>>, e |-> -105]
Cos270 == [s |-> 1, m |-> <<17669, 19614, 29298, 105>>, e |-> -104]

\* <<math.cos(math.radians(a)), math.sin(math.radians(a))>> as the C library
\* returns them, for a multiple a of 90 within a turn
CosSinBinary64(a) ==
    CASE a = 0 -> <<B64OfInt(1), B64OfInt(0)>>
      [] a = 90 -> <<Cos90, B64OfInt(1)>>
      [] a = -90 -> <<Cos90, B64OfInt(-1)>>
      [] a = 180 -> <<B64OfInt(-1), Sin180>>
      [] a = -180 -> <<B64OfInt(-1), B64Neg(Sin180)>>
      [] a = 270 -> <<B64Neg(Cos270), B64OfInt(-1)>>
      [] a = -270 -> <<B64Neg(Cos270), B64OfInt(1)>>

\* RectangleShape.contains_point on floats: cs is <<cos, sin>> of -angle
RectangleContainsAt(dx, dy, cs, w2, h2) ==
    /\ B64Le(B64Abs(B64Sub(B64Mul(dx, cs[1]), B64Mul(dy, cs[2]))), w2)
    /\ B64Le(B64Abs(B64Add(B64Mul(dx, cs[2]), B64Mul(dy, cs[1]))), h2)

\* RectangleShape.contains_point in binary64; px, py are rationals
RectangleContainsBinary64(s, px, py) ==
    RectangleContainsAt(B64Sub(B64OfQ(px), B64OfQ(s.x)), B64Sub(B64OfQ(py), B64OfQ(s.y)),
                        CosSinBinary64(-WholeDegrees(s.angle)),
                        B64OfQ(RHalf(s.width)), B64OfQ(RHalf(s.height)))

\* <<x + dx * cos - dy * sin, y + dx * sin + dy * cos>>, summed left to right
RotatedPointBinary64(x, y, dx, dy, cs) ==
    <<B64Sub(B64Add(x, B64Mul(dx, cs[1])), B64Mul(dy, cs[2])),
      B64Add(B64Add(y, B64Mul(dx, cs[2])), B64Mul(dy, cs[1]))>>

\* the local offsets pts rotated and translated to (x, y)
RotatedPolygonBinary64(x, y, pts, cs) ==
    [i \in DOMAIN pts |->
        RotatedPointBinary64(x, y, B64OfQ(pts[i][1]), B64OfQ(pts[i][2]), cs)]

\* RectangleShape.get_corners in binary64
get_cornersBinary64(s) ==
    RotatedPolygonBinary64(B64OfQ(s.x), B64OfQ(s.y),
                           RectLocalPts(RHalf(s.width), RHalf(s.height)),
                           CosSinBinary64(WholeDegrees(s.angle)))

\* HourglassShape._get_coords in binary64
_get_coordsBinary64(s) ==
    RotatedPolygonBinary64(B64OfQ(s.x), B64OfQ(s.y),
                           HourglassLocalPts(RHalf(s.width), RHalf(s.height)),
                           CosSinBinary64(WholeDegrees(s.angle)))

\* the edge a -> b is crossed by the ray from (px, py)
EdgeCrossedBinary64(px, py, a, b) ==
    /\ B64Lt(py, a[2]) # B64Lt(py, b[2])
    /\ B64Lt(px, B64Add(a[1], B64Div(B64Mul(B64Sub(py, a[2]), B64Sub(b[1], a[1])),
                                     B64Sub(b[2], a[2]))))

\* _point_in_polygon in binary64
_point_in_polygonBinary64(px, py, coords) ==
    Cardinality({ i \in 1..Len(coords) :
                    EdgeCrossedBinary64(px, py, coords[i],
                                        coords[(i % Len(coords)) + 1]) }) % 2 = 1

\* contains_point in binary64 of the classes whose test adds, multiplies or
\* divides; px, py are rationals
contains_pointBinary64(s, px, py) ==
    CASE s.kind = "rectangle" -> RectangleContainsBinary64(s, px, py)
      [] s.kind = "hourglass" ->
           _point_in_polygonBinary64(B64OfQ(px), B64OfQ(py), _get_coordsBinary64(s))
      [] s.kind = "line" -> LineContainsBinary64(s, px, py)

-----------------------------------------------------------------------------
(* class App: the editor state as a record, the methods as functions on it *)

App == [shapes |-> shapes, obj |-> obj, selected_shape |-> selected_shape,
        current_shape |-> current_shape, current_tool |-> current_tool,
        mode |-> mode, drag_data |-> drag_data, zoom_level |-> zoom_level,
        edit_text_btn |-> edit_text_btn, canvas |-> canvas,
        image_item |-> image_item, error |-> FALSE]

Range(f) == { f[i] : i \in DOMAIN f }

\* smallest identity not in use: the identity of a newly constructed object
NewId(a) == CHOOSE i \in 1..(Cardinality(DOMAIN a.obj) + 1) : i \notin DOMAIN a.obj

\* objects no reference reaches are dropped
Collect(a) ==
    [a EXCEPT !.obj = [i \in (DOMAIN a.obj) \cap
                             (Range(a.shapes) \cup {a.selected_shape, a.current_shape})
                       |-> a.obj[i]]]

DrawingTools == {"rectangle", "circle", "hourglass", "line", "text"}
Tools == {"select"} \cup DrawingTools

\* the canvas: its display list (item ids, bottom first) and the id the next
\* created item gets
EmptyCanvas == [items |-> <<>>, next |-> 1]

\* k calls of canvas.create_*: the new items are on top
canvas_create(c, k) ==
    [items |-> c.items \o [j \in 1..k |-> c.next + j - 1], next |-> c.next + k]

\* canvas.delete of each of ids (None and ids of no item are ignored)
canvas_delete(c, ids) == [c EXCEPT !.items = SelectSeq(@, LAMBDA j : j \notin ids)]

\* canvas.tag_raise(id): the item moves to the top of the display list
tag_raise(c, id) ==
    IF id \in Range(c.items)
    THEN [c EXCEPT !.items = Append(SelectSeq(@, LAMBDA j : j # id), id)]
    ELSE c

\* canvas.tag_lower(id): the item moves to the bottom of the display list
tag_lower(c, id) ==
    IF id \in Range(c.items)
    THEN [c EXCEPT !.items = <<id>> \o SelectSeq(@, LAMBDA j : j # id)]
    ELSE c

\* the image item is deleted if there is one, created and lowered
image_shown(a) ==
    [a EXCEPT !.canvas = tag_lower(canvas_create(canvas_delete(@, {a.image_item}), 1),
                                   a.canvas.next),
              !.image_item = a.canvas.next]

\* App.__init__; load_default_image shows the default image if its file
\* exists
InitApp(image) ==
    [shapes |-> <<>>, obj |-> <<>>, selected_shape |-> 0, current_shape |-> 0,
     current_tool |-> "select", mode |-> "idle", drag_data |-> EmptyDict,
     zoom_level |-> one_point_zero, edit_text_btn |-> "disabled",
     canvas |-> IF image THEN canvas_create(EmptyCanvas, 1) ELSE EmptyCanvas,
     image_item |-> IF image THEN 1 ELSE 0, error |-> FALSE]

\* the ids of the handle items of shape s
HandleItems(s) == { s.handles[k][3] : k \in DOMAIN s.handles }

\* delete_handles, were it to forget the handles without deleting their items
ForgetHandles(a, i) == [a EXCEPT !.obj[i].handles = <<>>]

\* Shape.delete_handles of object i
delete_handles(a, i) ==
    [a EXCEPT !.canvas = canvas_delete(@, HandleItems(a.obj[i])),
              !.obj[i].handles = <<>>]

\* object i becomes s, which holds newly created handle items
HandlesCreated(a, i, s) ==
    [a EXCEPT !.obj[i] = s, !.canvas = canvas_create(@, Len(s.handles))]

\* draw_handles of object i
HandlesDrawn(a, i) == HandlesCreated(a, i, NewHandles(a.obj[i], a.canvas.next))
draw_handles(a, i) == HandlesDrawn(delete_handles(a, i), i)

\* Shape.select and Shape.deselect of object i
select(a, i) == draw_handles([a EXCEPT !.obj[i].selected = TRUE], i)
deselect(a, i) == delete_handles([a EXCEPT !.obj[i].selected = FALSE], i)

\* TextShape.draw: the item is deleted, a new one is created and measured
TextDrawn(a, i, s) ==
    [a EXCEPT !.canvas = canvas_create(canvas_delete(@, {s.item}), 1),
              !.obj[i] = [s EXCEPT !.item = a.canvas.next,
                                   !.bbox = TextItemBBox(s.x, s.y, s.text, s.font_size)]]

\* draw of object i, were every class to create a new item at each call
DrawAlwaysCreating(a, i) ==
    IF a.obj[i].kind = "text" THEN TextDrawn(a, i, a.obj[i])
    ELSE [a EXCEPT !.canvas = canvas_create(@, 1), !.obj[i].item = a.canvas.next]

\* draw of object i: the other classes create the item when there is none
\* and move it in place (canvas.coords) otherwise
draw(a, i) ==
    IF a.obj[i].kind = "text" THEN TextDrawn(a, i, a.obj[i])
    ELSE IF a.obj[i].item = 0
    THEN [a EXCEPT !.canvas = canvas_create(@, 1), !.obj[i].item = a.canvas.next]
    ELSE a

\* draw_handles of object i when it is selected
DrawSelected(a, i) == IF a.obj[i].selected THEN draw_handles(a, i) ELSE a

\* the per-shape tail of the loops of apply_zoom and load_image: the item is
\* deleted and forgotten, then the shape is drawn
ItemDeleted(a, i) ==
    IF a.obj[i].item # 0
    THEN [a EXCEPT !.canvas = canvas_delete(@, {a.obj[i].item}), !.obj[i].item = 0]
    ELSE a
redraw(a, i) == DrawSelected(draw(ItemDeleted(a, i), i), i)

\* the per-shape body of apply_zoom's loop
rescale(a, i, z) == redraw([a EXCEPT !.obj[i] = Scaled(@, z)], i)

\* TextShape.edit_text followed by draw and draw_handles; text is what the
\* dialog leaves in the shape
edit_and_redraw(a, i, text) ==
    draw_handles(draw([a EXCEPT !.obj[i].text = text], i), i)

\* deselect_all without the call of the shape's deselect
DeselectReferenceOnly(a) == [a EXCEPT !.selected_shape = 0, !.edit_text_btn = "disabled"]

deselect_all(a) ==
    IF a.selected_shape # 0
    THEN [deselect(a, a.selected_shape) EXCEPT !.selected_shape = 0,
                                               !.edit_text_btn = "disabled"]
    ELSE [a EXCEPT !.edit_text_btn = "disabled"]

\* tag_raise of the item of object i, then of each of its handles
Raised(a, i) ==
    IF a.obj[i].item # 0
    THEN [a EXCEPT !.canvas =
             IF Len(a.obj[i].handles) = 2
             THEN tag_raise(tag_raise(tag_raise(@, a.obj[i].item),
                                      a.obj[i].handles[1][3]),
                            a.obj[i].handles[2][3])
             ELSE tag_raise(@, a.obj[i].item)]
    ELSE a

\* select_shape, were it to move the shape to the end of the sequence as it
\* raises its items
SelectMovingToEnd(a, shp) ==
    [Raised(select([deselect_all(a) EXCEPT !.selected_shape = shp], shp), shp) EXCEPT
        !.shapes = Append(SelectSeq(a.shapes, LAMBDA i : i # shp), shp),
        !.edit_text_btn = IF a.obj[shp].kind = "text" THEN "normal" ELSE "disabled"]

select_shape(a, shp) ==
    [Raised(select([deselect_all(a) EXCEPT !.selected_shape = shp], shp), shp) EXCEPT
        !.edit_text_btn = IF a.obj[shp].kind = "text" THEN "normal" ELSE "disabled"]

\* a tool setter without deselect_all
SetToolKeepingSelection(a, tool) ==
    [a EXCEPT !.current_tool = tool, !.mode = "idle", !.edit_text_btn = "disabled"]

\* the tool setters set_select_tool .. set_text_tool
set_tool(a, tool) ==
    [deselect_all([a EXCEPT !.current_tool = tool]) EXCEPT !.mode = "idle"]

\* the loop of apply_zoom over the shapes from position k on
RECURSIVE RescaledFrom(_, _, _)
RescaledFrom(a, k, z) ==
    IF k > Len(a.shapes) THEN a
    ELSE RescaledFrom(rescale(a, a.shapes[k], z), k + 1, z)

apply_zoom(a) ==
    RescaledFrom(IF a.image_item # 0 THEN image_shown(a) ELSE a, 1,
                 ZoomQ(a.zoom_level))

zoom_in(a) ==
    IF FLt(a.zoom_level, max_zoom)
    THEN apply_zoom([a EXCEPT !.zoom_level = FAdd(a.zoom_level, zoom_step)])
    ELSE a

zoom_out(a) ==
    IF FLt(min_zoom, a.zoom_level)
    THEN apply_zoom([a EXCEPT !.zoom_level = FSub(a.zoom_level, zoom_step)])
    ELSE a

reset_zoom(a) == apply_zoom([a EXCEPT !.zoom_level = one_point_zero])

\* the loop of load_image over the shapes from position k on
RECURSIVE RedrawnFrom(_, _)
RedrawnFrom(a, k) ==
    IF k > Len(a.shapes) THEN a ELSE RedrawnFrom(redraw(a, a.shapes[k]), k + 1)

\* load_image with a file chosen
load_image(a) ==
    RedrawnFrom([image_shown(a) EXCEPT !.zoom_level = one_point_zero], 1)

edit_text_shape(a, text) ==
    IF a.selected_shape # 0 /\ a.obj[a.selected_shape].kind = "text"
    THEN edit_and_redraw(a, a.selected_shape, text)
    ELSE a

\* delete_selected_shape without the canvas.delete of the shape's item
DeleteKeepingItem(a) ==
    IF a.selected_shape # 0
    THEN [delete_handles(a, a.selected_shape)
          EXCEPT   !.shapes = SelectSeq(a.shapes, LAMBDA i : i # a.selected_shape),
                   !.selected_shape = 0,
                   !.edit_text_btn = "disabled"]
    ELSE a

delete_selected_shape(a) ==
    IF a.selected_shape # 0
    THEN [delete_handles([a EXCEPT !.canvas =
                                       canvas_delete(@, {a.obj[a.selected_shape].item})],
                         a.selected_shape)
          EXCEPT   !.shapes = SelectSeq(a.shapes, LAMBDA i : i # a.selected_shape),
                   !.selected_shape = 0,
                   !.edit_text_btn = "disabled"]
    ELSE a

MinOr0(S) == IF S = {} THEN 0 ELSE CHOOSE i \in S : \A j \in S : i <= j
MaxOr0(S) == IF S = {} THEN 0 ELSE CHOOSE i \in S : \A j \in S : j <= i

\* index of the first handle of s, in dict order, whose region holds the
\* point and whose name on_canvas_click acts on; 0 if none
HitHandle(s, cx, cy) ==
    MinOr0({ i \in 1..Len(s.handles) :
                /\ InBBox(s.handles[i][2], cx, cy)
                /\ s.handles[i][1] \in {"resize", "end1", "end2", "rotate"} })

\* the name of the handle of the selected shape that on_canvas_click acts
\* on at the point; "" if there is none
HandleName(s, i) == IF i = 0 THEN "" ELSE s.handles[i][1]
SelectedHandleAt(a, cx, cy) ==
    IF a.selected_shape = 0 THEN ""
    ELSE HandleName(a.obj[a.selected_shape],
                    HitHandle(a.obj[a.selected_shape], cx, cy))

ShapeAt(a, i) == IF i = 0 THEN 0 ELSE a.shapes[i]

\* the scan of the shapes in creation order instead of reversed
HitShapeOldestFirst(a, cx, cy) ==
    ShapeAt(a, MinOr0({ i \in 1..Len(a.shapes) :
                           contains_point(a.obj[a.shapes[i]], Q(cx), Q(cy)) }))

\* the first shape of reversed(shapes) that contains the point; 0 if none
HitShape(a, cx, cy) ==
    ShapeAt(a, MaxOr0({ i \in 1..Len(a.shapes) :
                           contains_point(a.obj[a.shapes[i]], Q(cx), Q(cy)) }))

\* the constructor call on_canvas_click makes for the tool
NewShape(tool, cx, cy) ==
    CASE tool = "rectangle" -> RectangleShape(Q(cx), Q(cy), Q(100), Q(60))
      [] tool = "circle" -> CircleShape(Q(cx), Q(cy), Q(50))
      [] tool = "hourglass" -> HourglassShape(Q(cx), Q(cy), Q(60), Q(40))
      [] tool = "line" -> LineShape(Q(cx), Q(cy), Q(cx + 50), Q(cy))
      [] tool = "text" -> TextShape(Q(cx), Q(cy), "", 20)

\* the handle branch of on_canvas_click
click_handle(a, cx, cy, hname) ==
    IF hname \in {"resize", "end1", "end2"}
    THEN [a EXCEPT !.mode = "resizing",
                   !.drag_data =
                       IF a.obj[a.selected_shape].kind = "text" /\ hname = "resize"
                       THEN Put(Put(Put(Put(@, "handle", hname), "init_x", cx),
                                    "init_y", cy),
                                "init_font_size", a.obj[a.selected_shape].font_size)
                       ELSE Put(@, "handle", hname)]
    ELSE [a EXCEPT !.mode = "rotating"]

\* the creation branch of on_canvas_click; id is the new object
click_create(a, cx, cy, id) ==
    [draw([a EXCEPT !.mode = "create",
                    !.current_shape = id,
                    !.obj = (id :> NewShape(a.current_tool, cx, cy)) @@ @,
                    !.shapes = Append(@, id)], id)
     EXCEPT !.drag_data = [x |-> cx, y |-> cy]]

\* on_canvas_click with the scan of the shapes before the scan of the handles
ClickBodyFirst(a, cx, cy, hname, hit) ==
    IF hit # 0
    THEN [select_shape(a, hit) EXCEPT !.mode = "move", !.drag_data = [x |-> cx, y |-> cy]]
    ELSE IF hname # ""
    THEN click_handle(a, cx, cy, hname)
    ELSE IF a.mode = "edit"
    THEN [deselect_all(a) EXCEPT !.mode = "idle"]
    ELSE IF a.current_tool \in DrawingTools /\ a.mode = "idle"
    THEN click_create(a, cx, cy, NewId(a))
    ELSE IF a.current_tool = "select"
    THEN [deselect_all(a) EXCEPT !.mode = "idle"]
    ELSE a

\* on_canvas_click without its branch for the edit mode
ClickWithoutEditBranch(a, cx, cy, hname, hit) ==
    IF hname # ""
    THEN click_handle(a, cx, cy, hname)
    ELSE IF hit # 0
    THEN [select_shape(a, hit) EXCEPT !.mode = "move", !.drag_data = [x |-> cx, y |-> cy]]
    ELSE IF a.current_tool \in DrawingTools /\ a.mode = "idle"
    THEN click_create(a, cx, cy, NewId(a))
    ELSE IF a.current_tool = "select"
    THEN [deselect_all(a) EXCEPT !.mode = "idle"]
    ELSE a

\* on_canvas_click, given the handle of the selected shape (hname) and the
\* topmost shape (hit) at the point
click_at(a, cx, cy, hname, hit) ==
    IF hname # ""
    THEN click_handle(a, cx, cy, hname)
    ELSE IF hit # 0
    THEN [select_shape(a, hit) EXCEPT !.mode = "move", !.drag_data = [x |-> cx, y |-> cy]]
    ELSE IF a.mode = "edit"
    THEN [deselect_all(a) EXCEPT !.mode = "idle"]
    ELSE IF a.current_tool \in DrawingTools /\ a.mode = "idle"
    THEN click_create(a, cx, cy, NewId(a))
    ELSE IF a.current_tool = "select"
    THEN [deselect_all(a) EXCEPT !.mode = "idle"]
    ELSE a

on_canvas_click(a, cx, cy) ==
    click_at(a, cx, cy, SelectedHandleAt(a, cx, cy), HitShape(a, cx, cy))

\* shp.base_x = shp.x / zoom_level and so on, after a move
PointBase(m, z) == [m EXCEPT !.base_x = RDiv(m.x, z), !.base_y = RDiv(m.y, z)]
LineBase(m, z) ==
    [m EXCEPT !.base_x1 = RDiv(m.x1, z), !.base_y1 = RDiv(m.y1, z),
              !.base_x2 = RDiv(m.x2, z), !.base_y2 = RDiv(m.y2, z)]

\* the "create"/"move" branch of on_canvas_drag, before draw and draw_handles
drag_move(shp, dx, dy, z) ==
    IF shp.kind = "line"
    THEN LineBase([shp EXCEPT !.x1 = RAdd(@, Q(dx)), !.y1 = RAdd(@, Q(dy)),
                              !.x2 = RAdd(@, Q(dx)), !.y2 = RAdd(@, Q(dy))], z)
    ELSE PointBase([shp EXCEPT !.x = RAdd(@, Q(dx)), !.y = RAdd(@, Q(dy))], z)

\* width and height from the local offset l of the pointer, then the bases
BoxBase(m, z) ==
    [m EXCEPT !.base_width = RDiv(m.width, z), !.base_height = RDiv(m.height, z)]
\* the resize of a box without the floor of 10
ResizedBoxUnclamped(shp, l, z) ==
    BoxBase([shp EXCEPT !.width = RScale(RAbs(l[1]), 2),
                        !.height = RScale(RAbs(l[2]), 2)], z)
ResizedBox(shp, l, z) ==
    BoxBase([shp EXCEPT !.width = RMax(Q(10), RScale(RAbs(l[1]), 2)),
                        !.height = RMax(Q(10), RScale(RAbs(l[2]), 2))], z)

\* radius from the distance r of the pointer, then the base
ResizedCircle(shp, r, z) ==
    [shp EXCEPT !.radius = RMax(Q(10), r), !.base_radius = RDiv(RMax(Q(10), r), z)]

\* int(init_font_size * current_distance / init_distance), from the squares
\* of the distances
FloorSqrt(v) == ISqrt(v[1] \div v[2])
ScaledFont(init_font_size, current_sq, init_sq) ==
    FloorSqrt(RDiv(RMul(Q(init_font_size * init_font_size), current_sq),
                   IF init_sq[1] = 0 THEN Q(1) ELSE init_sq))

\* font size max(8, f), then the base
ResizedText(shp, f, z) ==
    [shp EXCEPT !.font_size = IF f < 8 THEN 8 ELSE f,
                !.base_font_size = RDiv(Q(IF f < 8 THEN 8 ELSE f), z)]

\* the "resizing" branch of on_canvas_drag, before draw and draw_handles;
\* d is drag_data
drag_resize(shp, d, cx, cy, z) ==
    CASE shp.kind \in {"rectangle", "hourglass"} /\ Get(d, "handle", "") = "resize" ->
           ResizedBox(shp, Rotated(RSub(Q(cx), shp.x), RSub(Q(cy), shp.y),
                               -WholeDegrees(shp.angle)), z)
      [] shp.kind = "circle" /\ Get(d, "handle", "") = "resize" ->
           ResizedCircle(shp, Hypot(RSub(Q(cx), shp.x), RSub(Q(cy), shp.y)), z)
      [] shp.kind = "line" ->
           IF Get(d, "handle", "") = "end1"
           THEN [shp EXCEPT !.x1 = Q(cx), !.y1 = Q(cy),
                            !.base_x1 = RDiv(Q(cx), z), !.base_y1 = RDiv(Q(cy), z)]
           ELSE [shp EXCEPT !.x2 = Q(cx), !.y2 = Q(cy),
                            !.base_x2 = RDiv(Q(cx), z), !.base_y2 = RDiv(Q(cy), z)]
      [] shp.kind = "text" /\ Get(d, "handle", "") = "resize"
         /\ {"init_x", "init_y", "init_font_size"} \subseteq DOMAIN d ->
           ResizedText(shp,
                       ScaledFont(d.init_font_size,
                                  HypotSq(RSub(Q(cx), shp.x), RSub(Q(cy), shp.y)),
                                  HypotSq(RSub(Q(d.init_x), shp.x),
                                          RSub(Q(d.init_y), shp.y))),
                       z)
      [] OTHER -> shp

\* the selected shape becomes m, drawn without its handles being drawn anew
DraggedKeepingHandles(a, cx, cy, m) ==
    [draw([a EXCEPT !.obj[a.selected_shape] = m], a.selected_shape)
     EXCEPT !.drag_data = Put(Put(@, "x", cx), "y", cy)]

\* the selected shape becomes m, drawn with its handles, and drag_data
\* records the pointer
Dragged(a, cx, cy, m) ==
    [draw_handles(draw([a EXCEPT !.obj[a.selected_shape] = m], a.selected_shape),
                  a.selected_shape)
     EXCEPT !.drag_data = Put(Put(@, "x", cx), "y", cy)]

\* shp.angle = (init_shape_angle + delta_angle) % 360, where delta_angle is
\* the bearing less init_rotate_angle; d is drag_data with the initial angles
Rotating(a, shp, d, bearing) ==
    [a EXCEPT !.drag_data = d,
              !.obj[a.selected_shape] =
                  [shp EXCEPT !.angle =
                      PyMod360(FAddSigned(d.init_shape_angle,
                                          FSubSigned(bearing, d.init_rotate_angle)))]]

\* the "rotating" branch of on_canvas_drag for a shape that is not a text,
\* before draw and draw_handles
drag_rotate(a, shp, bearing) ==
    IF "init_rotate_angle" \notin DOMAIN a.drag_data
    THEN (IF shp.kind \in {"rectangle", "hourglass"}
          THEN Rotating(a, shp,
                        Put(Put(a.drag_data, "init_rotate_angle", bearing),
                            "init_shape_angle", shp.angle),
                        bearing)
          ELSE \* shp.angle: the class has no such attribute
               [a EXCEPT !.drag_data = Put(@, "init_rotate_angle", bearing),
                         !.error = TRUE])
    ELSE IF "init_shape_angle" \notin DOMAIN a.drag_data
    THEN \* KeyError
         [a EXCEPT !.error = TRUE]
    ELSE Rotating(a, shp, a.drag_data, bearing)

\* the end of on_canvas_drag, which an exception in the branch skips
DraggedUnlessRaised(b, cx, cy) ==
    IF b.error THEN b ELSE Dragged(b, cx, cy, b.obj[b.selected_shape])

\* on_canvas_drag with a shape selected
drag_selected(a, shp, cx, cy, z) ==
    IF a.mode \in {"create", "move"}
    THEN Dragged(a, cx, cy,
                 drag_move(shp, cx - Get(a.drag_data, "x", cx),
                           cy - Get(a.drag_data, "y", cy), z))
    ELSE IF a.mode = "resizing"
    THEN Dragged(a, cx, cy, drag_resize(shp, a.drag_data, cx, cy, z))
    ELSE IF a.mode = "rotating" /\ shp.kind # "text"
    THEN DraggedUnlessRaised(drag_rotate(a, shp, Atan2Deg(RSub(Q(cy), shp.y),
                                                          RSub(Q(cx), shp.x))),
                             cx, cy)
    ELSE [a EXCEPT !.drag_data = Put(Put(@, "x", cx), "y", cy)]

\* on_canvas_drag, were it to move the shape being created while no shape
\* is selected
DragMovingCreated(a, cx, cy) ==
    IF a.selected_shape # 0
    THEN drag_selected(a, a.obj[a.selected_shape], cx, cy, ZoomQ(a.zoom_level))
    ELSE IF a.current_shape # 0
    THEN [a EXCEPT !.obj[a.current_shape] =
                       drag_move(@, cx - Get(a.drag_data, "x", cx),
                                 cy - Get(a.drag_data, "y", cy), ZoomQ(a.zoom_level)),
                   !.drag_data = Put(Put(@, "x", cx), "y", cy)]
    ELSE a

on_canvas_drag(a, cx, cy) ==
    IF a.selected_shape = 0 THEN a
    ELSE drag_selected(a, a.obj[a.selected_shape], cx, cy, ZoomQ(a.zoom_level))

\* the pointer is where the model's arithmetic is exact: a rational distance
\* for a circle's radius, a bearing that is a multiple of 90 degrees
DragExactFor(a, shp, dx, dy) ==
    /\ (a.mode = "resizing" /\ shp.kind = "circle"
        /\ Get(a.drag_data, "handle", "") = "resize") => HypotExact(dx, dy)
    /\ (a.mode = "rotating" /\ shp.kind \in {"rectangle", "hourglass", "circle"})
       => AxisAligned(dx, dy)
DragExact(a, cx, cy) ==
    IF a.selected_shape = 0 THEN TRUE
    ELSE DragExactFor(a, a.obj[a.selected_shape],
                      RSub(Q(cx), a.obj[a.selected_shape].x),
                      RSub(Q(cy), a.obj[a.selected_shape].y))

\* the creation branch of on_canvas_release; text is what the text dialog
\* leaves in a text shape
release_created(s, text) ==
    [(IF s.current_tool = "text" THEN edit_and_redraw(s, s.current_shape, text) ELSE s)
     EXCEPT !.mode = "edit", !.current_shape = 0]

\* on_canvas_release without the selection of the created shape
ReleaseWithoutSelect(d, text) ==
    IF d.mode = "create" /\ d.current_shape # 0
    THEN [d EXCEPT !.mode = "edit", !.current_shape = 0]
    ELSE IF d.selected_shape # 0
    THEN [d EXCEPT !.mode = "edit"]
    ELSE [d EXCEPT !.mode = "idle"]

\* on_canvas_release after the initial angles are dropped from drag_data
release(d, text) ==
    IF d.mode = "create" /\ d.current_shape # 0
    THEN release_created(select_shape(d, d.current_shape), text)
    ELSE IF d.selected_shape # 0
    THEN [d EXCEPT !.mode = "edit"]
    ELSE [d EXCEPT !.mode = "idle"]

on_canvas_release(a, text) ==
    release([a EXCEPT !.drag_data = Del(@, {"init_rotate_angle", "init_shape_angle"})],
            text)

\* the first text shape, in sequence order, that contains the point; 0 if none
HitText(a, cx, cy) ==
    ShapeAt(a, MinOr0({ i \in 1..Len(a.shapes) :
                           /\ a.obj[a.shapes[i]].kind = "text"
                           /\ TextContains(a.obj[a.shapes[i]], Q(cx), Q(cy)) }))

\* the body of on_double_click's loop without the call of edit_text_shape
DoubleClickSelectOnly(a, shp, text) ==
    IF shp = 0 THEN a
    ELSE select([deselect_all(a) EXCEPT !.selected_shape = shp], shp)

\* the body of on_double_click's loop for the text shape shp
double_click_on(a, shp, text) ==
    IF shp = 0 THEN a
    ELSE edit_text_shape(select([deselect_all(a) EXCEPT !.selected_shape = shp], shp),
                         text)

on_double_click(a, cx, cy, text) == double_click_on(a, HitText(a, cx, cy), text)

-----------------------------------------------------------------------------
(* The state machine *)

PointerIdle == [down |-> FALSE, multi |-> FALSE]

\* the editor is a
Constructed(a) ==
    /\ shapes = a.shapes
    /\ obj = a.obj
    /\ selected_shape = a.selected_shape
    /\ current_shape = a.current_shape
    /\ current_tool = a.current_tool
    /\ mode = a.mode
    /\ drag_data = a.drag_data
    /\ zoom_level = a.zoom_level
    /\ edit_text_btn = a.edit_text_btn
    /\ canvas = a.canvas
    /\ image_item = a.image_item
    /\ error = a.error

InitWith(e) ==
    /\ \E image \in e.images : Constructed(InitApp(image))
    /\ pointer = PointerIdle
    /\ last = [op |-> "init", x |-> 0, y |-> 0, sel |-> 0]
    /\ steps = 0
    /\ env = e

Init ==
    InitWith([points |-> Points, tools |-> Tools, images |-> BOOLEAN,
              steps |-> MaxSteps])

\* the editor becomes a, the handler op(x, y) is recorded and counted n
Store(a, op, x, y, n) ==
    /\ steps + n <= env.steps
    /\ Len(a.shapes) <= MaxShapes
    /\ env' = env
    /\ shapes' = a.shapes
    /\ obj' = a.obj
    /\ selected_shape' = a.selected_shape
    /\ current_shape' = a.current_shape
    /\ current_tool' = a.current_tool
    /\ mode' = a.mode
    /\ drag_data' = a.drag_data
    /\ zoom_level' = a.zoom_level
    /\ edit_text_btn' = a.edit_text_btn
    /\ canvas' = a.canvas
    /\ image_item' = a.image_item
    /\ error' = a.error
    /\ last' = [op |-> op, x |-> x, y |-> y, sel |-> selected_shape]
    /\ steps' = steps + n

\* the handler op(x, y) ran and left the editor as in `post`
Commit(post, op, x, y) == Store(Collect(post), op, x, y, 1)

\* a press on a toolbar button or a menu entry
Toolbar == pointer.down = FALSE /\ pointer' = PointerIdle

\* texts the dialog can leave in shape id: a typed one, or the old one
DialogTexts(id) ==
    Texts \cup (IF id # 0 /\ id \in DOMAIN obj /\ obj[id].kind = "text"
                THEN {obj[id].text} ELSE {})

\* the toolbar button of tool t
SetToolTo(t) == Toolbar /\ Commit(set_tool(App, t), "set_tool", 0, 0)

SetTool == \E t \in env.tools : SetToolTo(t)

ZoomIn == Toolbar /\ Commit(zoom_in(App), "zoom_in", 0, 0)

ZoomOut == Toolbar /\ Commit(zoom_out(App), "zoom_out", 0, 0)

ResetZoom == Toolbar /\ Commit(reset_zoom(App), "reset_zoom", 0, 0)

LoadImage == Toolbar /\ Commit(load_image(App), "load_image", 0, 0)

EditTextButton ==
    /\ Toolbar
    /\ edit_text_btn = "normal"
    /\ \E t \in DialogTexts(selected_shape) :
          Commit(edit_text_shape(App, t), "edit_text", 0, 0)

\* the Delete key, or the delete button with the pointer button up
Delete ==
    /\ Commit(delete_selected_shape(App), "delete", 0, 0)
    /\ pointer' = pointer

\* <Button-1>
PointerDown ==
    /\ pointer.down = FALSE
    /\ pointer' = [down |-> TRUE, multi |-> TRUE]
    /\ \E p \in env.points :
          Commit(on_canvas_click(App, p[1], p[2]), "click", p[1], p[2])

\* <B1-Motion>
PointerDrag ==
    /\ pointer.down
    /\ pointer' = [down |-> TRUE, multi |-> FALSE]
    /\ \E p \in env.points :
          /\ DragExact(App, p[1], p[2])
          /\ Commit(on_canvas_drag(App, p[1], p[2]), "drag", p[1], p[2])

\* <ButtonRelease-1>
PointerUp ==
    /\ pointer.down
    /\ pointer' = [pointer EXCEPT !.down = FALSE]
    /\ \E t \in (IF mode = "create" /\ current_tool = "text"
                 THEN DialogTexts(current_shape) ELSE {""}) :
          Commit(on_canvas_release(App, t), "release", 0, 0)

\* <Double-Button-1>: the press that follows a press and its release; the
\* canvas may have been scrolled under the pointer in between.  When the
\* editor window opens, the release of this press goes to the canvas (down)
\* or is lost to the editor window
DoubleClickAt(p) ==
    /\ pointer.down = FALSE
    /\ pointer.multi
    /\ \E t \in DialogTexts(HitText(App, p[1], p[2])) :
          Commit(on_double_click(App, p[1], p[2], t), "double_click", p[1], p[2])
    /\ \E down \in (IF HitText(App, p[1], p[2]) # 0 THEN BOOLEAN ELSE {TRUE}) :
          pointer' = [down |-> down, multi |-> down]

DoubleClick == \E p \in env.points : DoubleClickAt(p)

Next ==
    \/ SetTool
    \/ ZoomIn
    \/ ZoomOut
    \/ ResetZoom
    \/ LoadImage
    \/ EditTextButton
    \/ Delete
    \/ PointerDown
    \/ PointerDrag
    \/ PointerUp
    \/ DoubleClick

Spec == Init /\ [][Next]_vars

-----------------------------------------------------------------------------
(* The zoom buttons pressed any number of times, around the creation of a  *)
(* shape                                                                   *)

InitZoom ==
    InitWith([points |-> { <<100, 100>> }, tools |-> {"circle", "text"},
              images |-> {FALSE}, steps |-> MaxStepsZoom])

\* a zoom button may still be pressed
MayZoom == Toolbar /\ canvas.next <= MaxItems

ZoomInAny == MayZoom /\ Store(Collect(zoom_in(App)), "zoom_in", 0, 0, 0)

ZoomOutAny == MayZoom /\ Store(Collect(zoom_out(App)), "zoom_out", 0, 0, 0)

ResetZoomAny == MayZoom /\ Store(Collect(reset_zoom(App)), "reset_zoom", 0, 0, 0)

NextZoom ==
    \/ ZoomInAny
    \/ ZoomOutAny
    \/ ResetZoomAny
    \/ SetTool
    \/ PointerDown
    \/ PointerUp

SpecZoom == InitZoom /\ [][NextZoom]_vars

-----------------------------------------------------------------------------
(* Properties *)

ShapeIds == Range(shapes)

\* the handler that ran last and the canvas position it was given
LastOp == last.op
ZoomOps == {"zoom_in", "zoom_out", "reset_zoom"}

\* displayed = base * z for the geometric attributes of s
GeometryScaled(s, z) ==
    CASE s.kind \in {"rectangle", "hourglass"} ->
           /\ s.x = RMul(s.base_x, z) /\ s.y = RMul(s.base_y, z)
           /\ s.width = RMul(s.base_width, z) /\ s.height = RMul(s.base_height, z)
      [] s.kind = "circle" ->
           /\ s.x = RMul(s.base_x, z) /\ s.y = RMul(s.base_y, z)
           /\ s.radius = RMul(s.base_radius, z)
      [] s.kind = "line" ->
           /\ s.x1 = RMul(s.base_x1, z) /\ s.y1 = RMul(s.base_y1, z)
           /\ s.x2 = RMul(s.base_x2, z) /\ s.y2 = RMul(s.base_y2, z)
      [] s.kind = "text" ->
           s.x = RMul(s.base_x, z) /\ s.y = RMul(s.base_y, z)

\* displayed = base * z for every simple attribute of s, the font size too
AllScaled(s, z) ==
    /\ GeometryScaled(s, z)
    /\ s.kind = "text" => Q(s.font_size) = RMul(s.base_font_size, z)

\* the displayed reference point of s: its first endpoint, centre or anchor
Position(s) == IF s.kind = "line" THEN <<s.x1, s.y1>> ELSE <<s.x, s.y>>
BasePosition(s) ==
    IF s.kind = "line" THEN <<s.base_x1, s.base_y1>> ELSE <<s.base_x, s.base_y>>

\* position, size, radius, endpoints and angle of s
GeometryFields == {"x", "y", "width", "height", "radius", "x1", "y1", "x2", "y2", "angle"}
Geometry(s) == [k \in (DOMAIN s) \cap GeometryFields |-> s[k]]

\* the handles of shape s, among those a press acts on, whose region holds
\* the point (x, y)
ActingHandles == {"resize", "end1", "end2", "rotate"}
HandlesAt(s, x, y) ==
    { s.handles[i][1] : i \in { j \in 1..Len(s.handles) :
                                   /\ s.handles[j][1] \in ActingHandles
                                   /\ InBBox(s.handles[j][2], x, y) } }

\* a handle of the selected shape holds the point
OnSelectedHandle(x, y) ==
    IF selected_shape = 0 THEN FALSE ELSE HandlesAt(obj[selected_shape], x, y) # {}

\* the positions in the sequence of the shapes whose body contains the point
BodiesAt(x, y) ==
    { i \in 1..Len(shapes) : contains_point(obj[shapes[i]], Q(x), Q(y)) }

\* C1: in every reachable state every shape in the sequence has
\* displayed = base * zoom for its position, width, height, radius, line
\* endpoints and font size
C1_DisplayedIsBaseTimesZoom ==
    \A i \in ShapeIds : AllScaled(obj[i], ZoomQ(zoom_level))

\* C1, the case of shapes present when an image load resets the zoom
C1_LoadImageLeavesDisplayedUnscaled ==
    /\ LastOp = "load_image"
    /\ \E i \in ShapeIds : ~AllScaled(obj[i], ZoomQ(zoom_level))

\* C2: immediately after apply_zoom ran (the zoom buttons, below the maximum
\* and above the minimum) every shape in the sequence has each displayed
\* geometric attribute equal to its base attribute times the zoom factor
C2_ApplyZoomScalesGeometry ==
    LastOp \in ZoomOps =>
        \A i \in ShapeIds : GeometryScaled(obj[i], ZoomQ(zoom_level))

\* C2: apply_zoom has run at a zoom factor other than 1 over two shapes of
\* different classes
C2_Witness ==
    /\ LastOp \in ZoomOps
    /\ zoom_level # one_point_zero
    /\ Len(shapes) = 2
    /\ obj[shapes[1]].kind # obj[shapes[2]].kind
    /\ Position(obj[shapes[1]]) # BasePosition(obj[shapes[1]])

\* C3: a drag in move mode changes the base centre of the selected non-line
\* shape by the pointer delta divided by the zoom factor
C3_MoveChangesBaseByDeltaOverZoom ==
    [][ (/\ last'.op = "drag"
         /\ mode = "move"
         /\ selected_shape # 0
         /\ obj[selected_shape].kind # "line")
        => /\ obj'[selected_shape].base_x =
                RAdd(obj[selected_shape].base_x,
                     RDiv(Q(last'.x - drag_data.x), ZoomQ(zoom_level)))
           /\ obj'[selected_shape].base_y =
                RAdd(obj[selected_shape].base_y,
                     RDiv(Q(last'.y - drag_data.y), ZoomQ(zoom_level))) ]_vars

\* the zoom factor is within 2^-36 of a multiple of 0.1
NearTenth(z) ==
    Abs((z[1] \div 256) * 10 - ZoomTenths(z) * 1048576) <= 16

\* C4: after any sequence of zoom_in, zoom_out and reset_zoom the zoom
\* factor is within [0.1, 5.0] and a multiple of the 0.1 step
C4_ZoomWithinRange ==
    /\ ~FLt(zoom_level, min_zoom)
    /\ ~FLt(max_zoom, zoom_level)
    /\ NearTenth(zoom_level)

\* C5: at most one shape in the sequence has its selection flag set, that
\* shape is the selected-shape reference, and the reference is a member of
\* the sequence
C5_SingleSelection ==
    /\ Cardinality({ i \in ShapeIds : obj[i].selected }) <= 1
    /\ \A i \in ShapeIds : obj[i].selected => selected_shape = i
    /\ selected_shape # 0 => (selected_shape \in ShapeIds /\ obj[selected_shape].selected)

\* C5: the older of two shapes is selected by a press after the newer one
\* had been selected
C5_Witness ==
    /\ LastOp = "click"
    /\ Len(shapes) = 2
    /\ selected_shape = shapes[1]
    /\ ~obj[shapes[2]].selected

\* C6: a press on a resize, end1, end2 or rotate handle of the selected shape
\* enters resizing or rotating, keeps the selection, creates no shape and
\* selects no other shape, whatever bodies hold the point
C6_HandleHitWins ==
    [][ (last'.op = "click" /\ OnSelectedHandle(last'.x, last'.y))
        => /\ mode' \in {"resizing", "rotating"}
           /\ HandlesAt(obj[selected_shape], last'.x, last'.y) = {"rotate"}
                 => mode' = "rotating"
           /\ "rotate" \notin HandlesAt(obj[selected_shape], last'.x, last'.y)
                 => mode' = "resizing"
           /\ selected_shape' = selected_shape
           /\ shapes' = shapes
           /\ \A i \in ShapeIds : obj'[i].selected = obj[i].selected ]_vars

\* C6: the press was on the resize handle of the selected shape, at a point
\* inside the body of another shape
C6_Witness ==
    /\ LastOp = "click"
    /\ mode = "resizing"
    /\ OnSelectedHandle(last.x, last.y)
    /\ \E i \in BodiesAt(last.x, last.y) : shapes[i] # selected_shape

\* the largest element of the non-empty set S of numbers
Largest(S) == CHOOSE i \in S : \A j \in S : j <= i

\* C7: a press that hits no handle of the selected shape and is inside the
\* body of some shape selects the most recently created shape among those
\* containing the point, enters move and creates no shape, for every tool
\* and every prior mode
C7_TopmostBodySelected ==
    [][ (/\ last'.op = "click"
         /\ ~OnSelectedHandle(last'.x, last'.y)
         /\ BodiesAt(last'.x, last'.y) # {})
        => /\ selected_shape' = shapes[Largest(BodiesAt(last'.x, last'.y))]
           /\ mode' = "move"
           /\ shapes' = shapes ]_vars

\* C7: with a drawing tool active, the press was inside the bodies of two
\* shapes and the newer one is selected
C7_Witness ==
    /\ LastOp = "click"
    /\ mode = "move"
    /\ current_tool \in DrawingTools
    /\ BodiesAt(last.x, last.y) = {1, 2}
    /\ selected_shape = shapes[2]

\* C8: whenever no shape is selected and a drawing tool is active, a press on
\* empty canvas appends a shape
C8_PressOnEmptyCanvasCreates ==
    [][ (/\ last'.op = "click"
         /\ selected_shape = 0
         /\ current_tool \in DrawingTools
         /\ BodiesAt(last'.x, last'.y) = {})
        => Len(shapes') = Len(shapes) + 1 ]_vars

\* C9: in create mode a drag translates the newly created shape by the
\* pointer delta since the previous event and writes back base = displayed
\* / zoom
C9_CreateDragMovesNewShape ==
    [][ (last'.op = "drag" /\ mode = "create" /\ current_shape # 0)
        => /\ Position(obj'[current_shape]) =
                <<RAdd(Position(obj[current_shape])[1], Q(last'.x - drag_data.x)),
                  RAdd(Position(obj[current_shape])[2], Q(last'.y - drag_data.y))>>
           /\ BasePosition(obj'[current_shape]) =
                <<RDiv(Position(obj'[current_shape])[1], ZoomQ(zoom_level)),
                  RDiv(Position(obj'[current_shape])[2], ZoomQ(zoom_level))>> ]_vars

\* C10: after a release the mode is edit or idle: from create the created
\* shape is selected and the mode is edit, otherwise the mode is edit when a
\* shape is selected and idle when none is; and no shape's position, size,
\* radius, endpoints or angle changes
C10_ReleaseSettlesMode ==
    [][ last'.op = "release"
        => /\ mode' \in {"edit", "idle"}
           /\ mode = "create" => (selected_shape' = current_shape /\ mode' = "edit")
           /\ mode # "create" =>
                 mode' = (IF selected_shape # 0 THEN "edit" ELSE "idle")
           /\ shapes' = shapes
           /\ \A i \in ShapeIds : Geometry(obj'[i]) = Geometry(obj[i]) ]_vars

\* C10: the release ended a resize gesture that had changed a radius
C10_Witness ==
    /\ LastOp = "release"
    /\ mode = "edit"
    /\ selected_shape # 0
    /\ obj[selected_shape].kind = "circle"
    /\ obj[selected_shape].radius # RMul(Q(50), ZoomQ(zoom_level))
    /\ obj[selected_shape].base_radius # Q(50)

-----------------------------------------------------------------------------
(* Properties of deletion, errors, sizes, rotation and tools *)

\* the ids of the items on the canvas
CanvasItems == Range(canvas.items)

\* the canvas items shape s owns: its primitive and its handles
OwnedItems(s) == {s.item} \cup HandleItems(s)

\* the sequence q without the elements of S
Without(q, S) == SelectSeq(q, LAMBDA j : j \notin S)

\* C11: Delete with a shape selected removes exactly that shape from the
\* sequence, removes its primitive and its handles from the canvas and no
\* other item, clears the selection and leaves every other shape as it was;
\* with no shape selected it leaves the sequence, the canvas, the mode and
\* the selection unchanged; it raises no error
C11_DeleteRemovesSelected ==
    [][ last'.op = "delete"
        => /\ ~error'
           /\ IF selected_shape # 0
              THEN /\ selected_shape \in ShapeIds
                   /\ shapes' = Without(shapes, {selected_shape})
                   /\ selected_shape' = 0
                   /\ canvas'.items = Without(canvas.items, OwnedItems(obj[selected_shape]))
                   /\ \A i \in Range(shapes') : obj'[i] = obj[i]
              ELSE /\ shapes' = shapes
                   /\ canvas' = canvas
                   /\ mode' = mode
                   /\ selected_shape' = 0 ]_vars

\* C11: the selected one of two shapes was deleted, with its primitive and
\* its two handles on the canvas before
C11_Witness ==
    /\ LastOp = "delete"
    /\ last.sel # 0
    /\ Len(shapes) = 1
    /\ selected_shape = 0
    /\ obj[shapes[1]].item \in CanvasItems
    /\ canvas.next > Len(canvas.items) + 3

-----------------------------------------------------------------------------
(* Rotation gestures: a circle or a rectangle is created at (100, 100) and  *)
(* its rotate handle is pressed                                            *)

\* the creation point c, a point on the rotate handle of a circle and one on
\* that of a rectangle created at c, and the points right of and below c
PointsRotate == { <<100, 100>>, <<100, 30>>, <<100, 50>>, <<150, 100>>, <<100, 150>> }

InitRotate ==
    InitWith([points |-> PointsRotate, tools |-> {"circle", "rectangle"},
              images |-> {FALSE}, steps |-> MaxStepsRotate])

NextRotate ==
    \/ SetTool
    \/ PointerDown
    \/ PointerDrag
    \/ PointerUp

SpecRotate == InitRotate /\ [][NextRotate]_vars

\* C12: no event handler ends in an unhandled error, and a drag in rotating
\* mode with a circle selected leaves the circle as it was
C12_NoHandlerRaises ==
    [][ /\ ~error'
        /\ (/\ last'.op = "drag" /\ mode = "rotating" /\ selected_shape # 0
            /\ obj[selected_shape].kind = "circle")
           => Geometry(obj'[selected_shape]) = Geometry(obj[selected_shape]) ]_vars

-----------------------------------------------------------------------------
(* Resize gestures: a shape is created at (100, 100) and its resize handle  *)
(* is pressed and dragged                                                  *)

\* the creation point c, which is the centre or anchor of the shape, and
\* points on the resize handles of the shapes created at c: rectangle and
\* text, hourglass and text, circle
PointsResize == { <<100, 100>>, <<145, 125>>, <<135, 120>>, <<150, 100>> }

InitResize ==
    InitWith([points |-> PointsResize,
              tools |-> {"rectangle", "circle", "hourglass", "text"},
              images |-> {FALSE}, steps |-> MaxStepsResize])

NextResize ==
    \/ SetTool
    \/ ZoomOut
    \/ PointerDown
    \/ PointerDrag
    \/ PointerUp

SpecResize == InitResize /\ [][NextResize]_vars

\* the dimensions of s are at least the minimum: 10 for width, height and
\* radius, 8 for the font size
MinimumKept(s) ==
    CASE s.kind \in {"rectangle", "hourglass"} ->
           RLe(Q(10), s.width) /\ RLe(Q(10), s.height)
      [] s.kind = "circle" -> RLe(Q(10), s.radius)
      [] s.kind = "text" -> s.font_size >= 8
      [] OTHER -> TRUE

\* the dimensions of s are exactly the minimum
AtMinimum(s) ==
    CASE s.kind \in {"rectangle", "hourglass"} -> s.width = Q(10) /\ s.height = Q(10)
      [] s.kind = "circle" -> s.radius = Q(10)
      [] s.kind = "text" -> s.font_size = 8
      [] OTHER -> TRUE

\* a drag of the resize handle of the selected shape is about to be handled
ResizeDrag ==
    /\ last'.op = "drag"
    /\ mode = "resizing"
    /\ selected_shape # 0
    /\ Get(drag_data, "handle", "") = "resize"

\* C13: after a drag of the resize handle the width and height of a
\* rectangle or hourglass and the radius of a circle are at least 10 and the
\* font size of a text is at least 8, and they are exactly 10 and 8 when the
\* pointer is at the shape's centre or anchor
C13_ResizeKeepsMinimum ==
    [][ ResizeDrag
        => /\ MinimumKept(obj'[selected_shape])
           /\ Position(obj[selected_shape]) = <<Q(last'.x), Q(last'.y)>>
                 => AtMinimum(obj'[selected_shape]) ]_vars

\* C13: the resize handle of a rectangle was dragged to the rectangle's
\* centre, at a zoom factor other than 1
C13_Witness ==
    /\ LastOp = "drag"
    /\ mode = "resizing"
    /\ selected_shape # 0
    /\ obj[selected_shape].kind = "rectangle"
    /\ Position(obj[selected_shape]) = <<Q(last.x), Q(last.y)>>
    /\ AtMinimum(obj[selected_shape])
    /\ obj[selected_shape].base_width # Q(10)

\* C14: in every reachable state every rectangle and hourglass has width and
\* height of at least 10, every circle a radius of at least 10 and every
\* text a font size of at least 8
C14_NoDegenerateShape == \A i \in ShapeIds : MinimumKept(obj[i])


-----------------------------------------------------------------------------
(* The arithmetic of rotation gestures: a rectangle was created at (100,    *)
(* 100); its rotate handle is pressed, the pointer is dragged and released, *)
(* again and again.  The drags reach bearings off the axes, at which the    *)
(* corners of the rectangle have no exact coordinates, so the drag is taken *)
(* up to the redraw: drawing reads the angle and never writes it.           *)

\* pointer positions of the drags: offsets (-30, -30), (-10, -30), (0, 10),
\* (10, 20) and (50, 0) from the rectangle's centre
PointsAngle == { <<70, 70>>, <<90, 70>>, <<100, 110>>, <<110, 120>>, <<150, 100>> }

\* the editor after the rectangle tool was chosen and the canvas was pressed
\* and released at (100, 100)
RectangleCreated ==
    on_canvas_release(on_canvas_click(set_tool(InitApp(FALSE), "rectangle"),
                                      100, 100), "")

InitAngle ==
    /\ Constructed(RectangleCreated)
    /\ pointer = PointerIdle
    /\ last = [op |-> "init", x |-> 0, y |-> 0, sel |-> 0]
    /\ steps = 0
    /\ env = [points |-> PointsAngle, tools |-> {"rectangle"}, images |-> {FALSE},
              steps |-> MaxStepsAngle]

\* <Button-1> on the rotate handle of the selected shape, where it is drawn
RotatePress ==
    /\ pointer.down = FALSE
    /\ selected_shape # 0
    /\ pointer' = [down |-> TRUE, multi |-> TRUE]
    /\ Commit(click_handle(App, 0, 0, "rotate"), "click", 0, 0)

\* the pointer's bearing from the centre of shp
BearingFrom(shp, cx, cy) == Atan2Deg(RSub(Q(cy), shp.y), RSub(Q(cx), shp.x))

\* <B1-Motion> in rotating mode, up to the redraw
RotateDrag ==
    /\ pointer.down
    /\ mode = "rotating"
    /\ pointer' = [down |-> TRUE, multi |-> FALSE]
    /\ \E p \in env.points :
          Commit([drag_rotate(App, obj[selected_shape],
                              BearingFrom(obj[selected_shape], p[1], p[2]))
                  EXCEPT !.drag_data = Put(Put(@, "x", p[1]), "y", p[2])],
                 "drag", p[1], p[2])

NextAngle ==
    \/ RotatePress
    \/ RotateDrag
    \/ PointerUp

SpecAngle == InitAngle /\ [][NextAngle]_vars

AngleInRange(a) == a[1] >= 0 /\ a[1] < 360 * Degree

\* C15: in every reachable state the angle of every shape is at least 0 and
\* less than 360
C15_AngleInRange ==
    \A i \in ShapeIds : "angle" \in DOMAIN obj[i] => AngleInRange(obj[i].angle)

-----------------------------------------------------------------------------
(* Tool setters *)

\* no shape is selected and no shape holds handles
NothingSelected ==
    /\ selected_shape = 0
    /\ \A i \in ShapeIds : ~obj[i].selected /\ obj[i].handles = <<>>

\* C16: a tool setter leaves no shape selected, no shape holding handles and
\* the mode idle, makes the chosen tool the active one, and leaves the shape
\* sequence and the geometry of every shape unchanged
C16_ToolSetterResets ==
    [][ \A t \in Tools :
          SetToolTo(t) => /\ NothingSelected'
                          /\ mode' = "idle"
                          /\ current_tool' = t
                          /\ shapes' = shapes
                          /\ \A i \in ShapeIds :
                                Geometry(obj'[i]) = Geometry(obj[i]) ]_vars

\* C16: a tool other than the active one was chosen while a rectangle was
\* selected, in edit mode, among two shapes
C16_Witness ==
    /\ LastOp = "set_tool"
    /\ last.sel \in ShapeIds
    /\ obj[last.sel].kind = "rectangle"
    /\ Len(shapes) = 2
    /\ current_tool = "circle"
    /\ NothingSelected
    /\ mode = "idle"

-----------------------------------------------------------------------------
(* contains_point as a function, in binary64: a shape is constructed and   *)
(* its contains_point is called once.  In SpecLine the shape is a line     *)
(* from (0, 0) to one of LineEnds and the point is one of LinePoints       *)

\* second endpoints: a horizontal line, a vertical one, and five oblique ones
LineEnds == { <<100, 0>>, <<0, 50>>, <<3, 3>>, <<8, 5>>, <<30, 40>>, <<5, 12>>,
              <<12, 5>> }

\* test points: on, near and away from the lines, their endpoints, and points
\* just beyond an endpoint
LinePoints == { <<50, 3>>, <<50, 10>>, <<50, 5>>, <<0, 0>>, <<100, 0>>, <<0, 50>>,
                <<3, 3>>, <<8, 5>>, <<30, 40>>, <<5, 12>>, <<12, 5>>, <<2, 2>>,
                <<11, 23>>, <<0, 13>>, <<13, 0>>, <<4, 25>>, <<103, 0>>, <<-3, 0>>,
                <<0, 53>>, <<0, -3>>, <<5, 5>>, <<-2, -2>> }

InitLine ==
    /\ \E e \in LineEnds :
          Constructed([InitApp(FALSE) EXCEPT
                          !.shapes = <<1>>,
                          !.obj = 1 :> LineShape(Q(0), Q(0), Q(e[1]), Q(e[2]))])
    /\ pointer = PointerIdle
    /\ last = [op |-> "init", x |-> 0, y |-> 0, sel |-> 0]
    /\ steps = 0
    /\ env = [points |-> LinePoints, tools |-> {"line"}, images |-> {FALSE},
              steps |-> 0]

\* contains_point(x, y) of the shape is called; `last` records the point and,
\* as the selection found, the shape if it contains the point
ContainsPoint ==
    /\ LastOp = "init"
    /\ \E p \in env.points :
          last' = [op |-> "contains_point", x |-> p[1], y |-> p[2],
                   sel |-> IF contains_pointBinary64(obj[shapes[1]], Q(p[1]), Q(p[2]))
                           THEN shapes[1] ELSE 0]
    /\ UNCHANGED <<shapes, obj, selected_shape, current_shape, current_tool, mode,
                   drag_data, zoom_level, edit_text_btn, canvas, image_item,
                   error, pointer, steps, env>>

NextContains == ContainsPoint

SpecLine == InitLine /\ [][NextContains]_vars

\* (p - end1) . (end2 - end1) and (p - end1) x (end2 - end1) for the line s
DotAlong(s, px, py) ==
    RAdd(RMul(RSub(px, s.x1), RSub(s.x2, s.x1)), RMul(RSub(py, s.y1), RSub(s.y2, s.y1)))
CrossAlong(s, px, py) ==
    RSub(RMul(RSub(px, s.x1), RSub(s.y2, s.y1)), RMul(RSub(py, s.y1), RSub(s.x2, s.x1)))
LengthSq(s) == HypotSq(RSub(s.x2, s.x1), RSub(s.y2, s.y1))

\* the projection of (px, py) onto the line through the endpoints of s falls
\* within the segment
ProjectsWithin(s, px, py) ==
    RLe(Q(0), DotAlong(s, px, py)) /\ RLe(DotAlong(s, px, py), LengthSq(s))

\* the perpendicular distance |cross| / length from (px, py) to the line
\* through the endpoints of s is at most 5
PerpendicularWithin5(s, px, py) ==
    RLe(RSq(CrossAlong(s, px, py)), RMul(Q(25), LengthSq(s)))

\* C17: for a line with distinct endpoints and a point whose projection
\* falls within the segment, contains_point is true exactly when the
\* perpendicular distance from the point to the line is at most 5
C17_LineContainsIffWithin5 ==
    LastOp = "contains_point" =>
        \A i \in ShapeIds :
            ProjectsWithin(obj[i], Q(last.x), Q(last.y)) =>
                (last.sel # 0 <=> PerpendicularWithin5(obj[i], Q(last.x), Q(last.y)))

\* C17: contains_point(50, 3) of the line from (0, 0) to (100, 0) is true
C17_Witness ==
    /\ LastOp = "contains_point"
    /\ obj[shapes[1]].x2 = Q(100)
    /\ <<last.x, last.y>> = <<50, 3>>
    /\ last.sel # 0

\* (px, py) projects outside the segment of the line s
BeyondEnd(s, px, py) ==
    \/ RLt(DotAlong(s, px, py), Q(0))
    \/ RLt(LengthSq(s), DotAlong(s, px, py))

\* (px, py) projects outside the segment of the line s and is within 5 of
\* the endpoint it lies beyond
BeyondEndWithin5(s, px, py) ==
    \/ /\ RLt(DotAlong(s, px, py), Q(0))
       /\ RLe(HypotSq(RSub(px, s.x1), RSub(py, s.y1)), Q(25))
    \/ /\ RLt(LengthSq(s), DotAlong(s, px, py))
       /\ RLe(HypotSq(RSub(px, s.x2), RSub(py, s.y2)), Q(25))

\* C21 as stated: for a line with distinct endpoints, a point beyond an
\* endpoint along the line's direction but within 5 of that endpoint is
\* contained (the projection parameter is clamped to [0, 1])
C21_BeyondEndContained ==
    LastOp = "contains_point" =>
        \A i \in ShapeIds :
            (obj[i].kind = "line" /\ BeyondEndWithin5(obj[i], Q(last.x), Q(last.y)))
                => last.sel # 0

\* C21 as amended: for a line with distinct endpoints, a point whose
\* projection falls beyond an endpoint is not contained, also when it is
\* within 5 of that endpoint (the projection parameter is not clamped)
C21_BeyondEndNotContained ==
    LastOp = "contains_point" =>
        \A i \in ShapeIds :
            (obj[i].kind = "line" /\ BeyondEnd(obj[i], Q(last.x), Q(last.y)))
                => last.sel = 0

\* C21: contains_point(103, 0) of the line from (0, 0) to (100, 0) is false
C21_Witness ==
    /\ LastOp = "contains_point"
    /\ obj[shapes[1]].kind = "line"
    /\ obj[shapes[1]].x2 = Q(100)
    /\ <<last.x, last.y>> = <<103, 0>>
    /\ last.sel = 0

-----------------------------------------------------------------------------
(* In SpecBox the shape is the rectangle of 100 by 60 or the hourglass of  *)
(* 60 by 40 at (100, 100), turned by a multiple of 90 degrees, and the     *)
(* point is one of BoxPoints                                               *)

BoxAngles == {0, 90, 180, 270}

\* the centre; corners and edge points of the rectangle lying or standing;
\* points inside and outside it; points in the triangles of the hourglass
\* and beside them
BoxPoints == { <<100, 100>>, <<70, 130>>, <<130, 130>>, <<130, 150>>, <<70, 50>>,
               <<150, 130>>, <<50, 70>>, <<140, 100>>, <<100, 140>>, <<151, 100>>,
               <<100, 151>>, <<100, 90>>, <<100, 110>>, <<90, 100>>, <<110, 100>>,
               <<120, 100>>, <<100, 120>>, <<103, 103>>, <<97, 96>>, <<104, 102>>,
               <<95, 98>>, <<125, 116>>, <<75, 90>> }

BoxShapes ==
    { [RectangleShape(Q(100), Q(100), Q(100), Q(60)) EXCEPT !.angle = FDeg(a)] :
         a \in BoxAngles }
    \cup { [HourglassShape(Q(100), Q(100), Q(60), Q(40)) EXCEPT !.angle = FDeg(a)] :
              a \in BoxAngles }

InitBox ==
    /\ \E s \in BoxShapes :
          Constructed([InitApp(FALSE) EXCEPT !.shapes = <<1>>, !.obj = 1 :> s])
    /\ pointer = PointerIdle
    /\ last = [op |-> "init", x |-> 0, y |-> 0, sel |-> 0]
    /\ steps = 0
    /\ env = [points |-> BoxPoints, tools |-> {"rectangle", "hourglass"},
              images |-> {FALSE}, steps |-> 0]

SpecBox == InitBox /\ [][NextContains]_vars

\* the offset of (px, py) from the centre of s, turned back by the angle of s
LocalOffset(s, px, py) ==
    Rotated(RSub(px, s.x), RSub(py, s.y), -WholeDegrees(s.angle))

\* the local offset l lies strictly inside the box, or strictly inside one of
\* the two triangles of the hourglass, of half extents w2, h2
InteriorOfBox(l, w2, h2) == RLt(RAbs(l[1]), w2) /\ RLt(RAbs(l[2]), h2)
InteriorOfHourglass(l, w2, h2) ==
    RLt(RAbs(l[2]), h2) /\ RLt(RMul(RAbs(l[1]), h2), RMul(RAbs(l[2]), w2))
InteriorOffset(s, px, py) ==
    IF s.kind = "rectangle"
    THEN InteriorOfBox(LocalOffset(s, px, py), RHalf(s.width), RHalf(s.height))
    ELSE InteriorOfHourglass(LocalOffset(s, px, py), RHalf(s.width), RHalf(s.height))

\* (b - a) x (p - a), exactly
EdgeSide(p, a, b) ==
    ExactSum(ExactProduct(ExactSum(b[1], B64Neg(a[1])), ExactSum(p[2], B64Neg(a[2]))),
             B64Neg(ExactProduct(ExactSum(b[2], B64Neg(a[2])),
                                 ExactSum(p[1], B64Neg(a[1])))))

\* p lies in the convex polygon of the corners c, edges included
InClosedPolygon(p, c) ==
    \/ \A i \in 1..Len(c) : ~B64Positive(EdgeSide(p, c[i], c[(i % Len(c)) + 1]))
    \/ \A i \in 1..Len(c) : ~B64Positive(B64Neg(EdgeSide(p, c[i], c[(i % Len(c)) + 1])))

\* C18: contains_point of a rectangle agrees with membership in the polygon
\* of get_corners
RectangleAgreesWithCorners(s, px, py, contained) ==
    s.kind = "rectangle" =>
        (contained <=> InClosedPolygon(<<B64OfInt(px), B64OfInt(py)>>,
                                       get_cornersBinary64(s)))

\* C18: a point at an interior local offset of a rectangle or hourglass
\* is contained
InteriorIsContained(s, px, py, contained) ==
    (s.kind \in {"rectangle", "hourglass"} /\ InteriorOffset(s, Q(px), Q(py)))
        => contained

\* C18: at every multiple of 90 degrees, a point at an interior local offset
\* of a rectangle or hourglass is contained by contains_point, and for a
\* rectangle contains_point agrees with membership in the polygon returned
\* by get_corners
C18_ContainsAgreesWithCorners ==
    LastOp = "contains_point" =>
        \A i \in ShapeIds :
            /\ InteriorIsContained(obj[i], last.x, last.y, last.sel # 0)
            /\ RectangleAgreesWithCorners(obj[i], last.x, last.y, last.sel # 0)

\* C18: the point at the local offset (40, 0) of the rectangle turned by 90
\* degrees is contained
C18_Witness ==
    /\ LastOp = "contains_point"
    /\ obj[shapes[1]].kind = "rectangle"
    /\ obj[shapes[1]].angle = FDeg(90)
    /\ <<last.x, last.y>> = <<100, 140>>
    /\ last.sel # 0

-----------------------------------------------------------------------------
(* draw as an operation: in SpecDraw shapes are created and moved with the *)
(* pointer, and draw(canvas) may be called on any shape object between the *)
(* handlers                                                                *)

DrawOps == {"draw", "draw_again"}

\* shp.draw(canvas) for the shape object i; the history records whether the
\* call before it was a draw of the same object
DrawOf(i) ==
    /\ Commit(draw(App, i),
              IF LastOp \in DrawOps /\ last.x = i THEN "draw_again" ELSE "draw", i, 0)
    /\ pointer' = pointer

DrawShape == \E i \in DOMAIN obj : DrawOf(i)

InitDraw ==
    InitWith([points |-> Points, tools |-> Tools, images |-> {FALSE},
              steps |-> MaxStepsDraw])

NextDraw ==
    \/ SetTool
    \/ PointerDown
    \/ PointerDrag
    \/ PointerUp
    \/ DrawShape

SpecDraw == InitDraw /\ [][NextDraw]_vars

\* C19: the second of two draws of a shape that is not a text keeps its item
\* and the set of items on the canvas
SecondDrawInPlace(i) ==
    /\ obj'[i].item = obj[i].item
    /\ CanvasItems' = CanvasItems

\* C19: the second of two draws of a text replaces its item: the old item is
\* off the canvas, the new one is on it, and the canvas holds as many items
\* as before
SecondDrawReplaces(i) ==
    /\ obj'[i].item # obj[i].item
    /\ obj[i].item \notin CanvasItems'
    /\ obj'[i].item \in CanvasItems'
    /\ CanvasItems' \ {obj'[i].item} = CanvasItems \ {obj[i].item}

\* C19: a draw that follows a draw of the same shape, its geometry unchanged,
\* keeps the item of a shape that is not a text and the set of canvas items;
\* for a text it replaces the item and the text owns one item as before
C19_DrawIdempotent ==
    [][ \A i \in DOMAIN obj :
          (LastOp \in DrawOps /\ last.x = i /\ DrawOf(i)) =>
              /\ Geometry(obj'[i]) = Geometry(obj[i])
              /\ IF obj[i].kind = "text" THEN SecondDrawReplaces(i)
                 ELSE SecondDrawInPlace(i) ]_vars

\* C19: a rectangle in the sequence has been drawn twice in a row and its
\* item is on the canvas
C19_Witness ==
    /\ LastOp = "draw_again"
    /\ last.x \in ShapeIds
    /\ obj[last.x].kind = "rectangle"
    /\ obj[last.x].item \in CanvasItems

\* C19 (text case): a text in the sequence has been drawn twice in a row and
\* its item is on the canvas
DrawnTwiceText ==
    /\ LastOp = "draw_again"
    /\ last.x \in ShapeIds
    /\ obj[last.x].kind = "text"
    /\ obj[last.x].item \in CanvasItems

-----------------------------------------------------------------------------
(* Double-click *)

\* the texts of the sequence whose rendered bounding box, the bounding box of
\* the text item on the canvas, holds the point p
RenderedTextsAt(p) ==
    { i \in ShapeIds :
        /\ obj[i].kind = "text"
        /\ obj[i].item \in CanvasItems
        /\ InBBox(TextItemBBox(obj[i].x, obj[i].y, obj[i].text, obj[i].font_size),
                  p[1], p[2]) }

\* the text editor ran for the text i: the text holds what the dialog left
\* and has been drawn anew
EditorRanFor(i) ==
    /\ obj'[i].text \in DialogTexts(i)
    /\ obj'[i].item \notin CanvasItems
    /\ obj'[i].item \in CanvasItems'

\* the state of the editor
Editor == <<shapes, obj, selected_shape, current_shape, current_tool, mode,
            drag_data, zoom_level, edit_text_btn, canvas, image_item, error>>

\* C20: in every mode and with every tool, a double-click inside the rendered
\* bounding box of a text opens the text editor for a text holding the point
\* and leaves that text the selected shape; a double-click that hits no text
\* changes nothing
C20_DoubleClickEditsText ==
    [][ \A p \in Points :
          DoubleClickAt(p) =>
              IF RenderedTextsAt(p) # {}
              THEN /\ selected_shape' \in RenderedTextsAt(p)
                   /\ obj'[selected_shape'].selected
                   /\ EditorRanFor(selected_shape')
                   /\ ~error'
              ELSE Editor' = Editor ]_vars

\* C20: with the rectangle tool active, a double-click on a text that was
\* not selected has selected it
C20_Witness ==
    /\ LastOp = "double_click"
    /\ current_tool = "rectangle"
    /\ last.sel # selected_shape
    /\ selected_shape \in ShapeIds
    /\ obj[selected_shape].kind = "text"
    /\ obj[selected_shape].selected
    /\ InBBox(obj[selected_shape].bbox, last.x, last.y)

\* C20: a double-click that hit no text, with a shape in the sequence
DoubleClickMissed ==
    /\ LastOp = "double_click"
    /\ Len(shapes) > 0
    /\ HitText(App, last.x, last.y) = 0

-----------------------------------------------------------------------------
(* Hourglass hit-testing *)

\* the local offset l lies strictly inside the left or the right triangle of
\* the box of half extents w2, h2: between a vertical side and the diagonals
InSideTriangle(l, w2, h2) ==
    RLt(RAbs(l[1]), w2) /\ RLt(RMul(RAbs(l[2]), w2), RMul(RAbs(l[1]), h2))

\* top-left, bottom-right, bottom-left, top-right, top-left of the box of s
BowtieOrder(s) ==
    << <<RSub(s.x, RHalf(s.width)), RSub(s.y, RHalf(s.height))>>,
       <<RAdd(s.x, RHalf(s.width)), RAdd(s.y, RHalf(s.height))>>,
       <<RSub(s.x, RHalf(s.width)), RAdd(s.y, RHalf(s.height))>>,
       <<RAdd(s.x, RHalf(s.width)), RSub(s.y, RHalf(s.height))>>,
       <<RSub(s.x, RHalf(s.width)), RSub(s.y, RHalf(s.height))>> >>

\* C22: for the hourglass s at angle 0, the vertex sequence is the bowtie
\* order, a point strictly inside the top or bottom triangle is contained
\* and a point strictly inside the left or right triangle is not
HourglassSilhouette(s, px, py, contained) ==
    /\ _get_coords(s) = BowtieOrder(s)
    /\ InteriorOfHourglass(LocalOffset(s, px, py), RHalf(s.width), RHalf(s.height))
          => contained
    /\ InSideTriangle(LocalOffset(s, px, py), RHalf(s.width), RHalf(s.height))
          => ~contained

\* C22: hourglass hit-testing applies the even-odd rule to the vertex
\* sequence top-left, bottom-right, bottom-left, top-right, top-left: at
\* angle 0 a point strictly inside the top or the bottom triangle is
\* contained, a point strictly inside the left or the right triangle of the
\* bounding box is not
C22_HourglassEvenOdd ==
    LastOp = "contains_point" =>
        \A i \in ShapeIds :
            (obj[i].kind = "hourglass" /\ obj[i].angle = FDeg(0))
                => HourglassSilhouette(obj[i], Q(last.x), Q(last.y), last.sel # 0)

\* C22: the point (110, 100), strictly inside the right triangle of the
\* hourglass at angle 0, is not contained
C22_Witness ==
    /\ LastOp = "contains_point"
    /\ obj[shapes[1]].kind = "hourglass"
    /\ obj[shapes[1]].angle = FDeg(0)
    /\ <<last.x, last.y>> = <<110, 100>>
    /\ InSideTriangle(LocalOffset(obj[shapes[1]], Q(110), Q(100)), Q(30), Q(20))
    /\ last.sel = 0

\* C22: the point (103, 103), strictly inside the bottom triangle of the
\* hourglass at angle 0, is contained
HourglassBottomContained ==
    /\ LastOp = "contains_point"
    /\ obj[shapes[1]].kind = "hourglass"
    /\ obj[shapes[1]].angle = FDeg(0)
    /\ <<last.x, last.y>> = <<103, 103>>
    /\ InteriorOfHourglass(LocalOffset(obj[shapes[1]], Q(103), Q(103)), Q(30), Q(20))
    /\ last.sel # 0

-----------------------------------------------------------------------------
(* The press in edit mode *)

\* C23: when the mode is edit and a press hits no handle of the selected
\* shape and no shape body, the selection is cleared, its handles are
\* released and the mode becomes idle; no shape is created, whatever the tool
C23_EditPressOnEmptyDeselects ==
    [][ (/\ last'.op = "click"
         /\ mode = "edit"
         /\ ~OnSelectedHandle(last'.x, last'.y)
         /\ BodiesAt(last'.x, last'.y) = {})
        => /\ selected_shape' = 0
           /\ mode' = "idle"
           /\ shapes' = shapes
           /\ current_shape' = current_shape
           /\ \A i \in ShapeIds : ~obj'[i].selected /\ obj'[i].handles = <<>> ]_vars

\* C23: with a drawing tool active and a shape selected, the press was on
\* empty canvas; it has left the mode idle and nothing selected
C23_Witness ==
    /\ LastOp = "click"
    /\ current_tool \in DrawingTools
    /\ last.sel \in ShapeIds
    /\ BodiesAt(last.x, last.y) = {}
    /\ selected_shape = 0
    /\ mode = "idle"

-----------------------------------------------------------------------------
(* Handle regions *)

\* the names and regions of the handles h, in order
HandleRegions(h) == [j \in 1..Len(h) |-> <<h[j][1], h[j][2]>>]

\* the handles of s are those draw_handles computes from the geometry of s
HandlesCurrent(s) == HandleRegions(s.handles) = HandleRegions(NewHandles(s, 0).handles)

\* C24: the handle regions of the selected shape are the ones computed from
\* its current geometry: after every move, resize, rotate, zoom change,
\* image load and text edit its handles have been recomputed before a
\* later event reads them
C24_HandlesFollowGeometry ==
    selected_shape # 0 => HandlesCurrent(obj[selected_shape])

\* C24: the selected rectangle has been moved off the place it was created
\* at and resized, and its resize handle is at its bottom-right corner
C24_Witness ==
    /\ LastOp = "drag"
    /\ selected_shape \in ShapeIds
    /\ obj[selected_shape].kind = "rectangle"
    /\ obj[selected_shape].x # obj[selected_shape].base_x \/ obj[selected_shape].width # Q(100)
    /\ obj[selected_shape].handles # <<>>
    /\ obj[selected_shape].handles[1][2] =
          RectItemBBox(RAdd(obj[selected_shape].x, RHalf(obj[selected_shape].width)),
                       RAdd(obj[selected_shape].y, RHalf(obj[selected_shape].height)), 6)

-----------------------------------------------------------------------------
(* Frame of the drag: in SpecFrame the editor starts with one shape        *)
(* created at (100, 100), or with that shape and a second one created at   *)
(* (200, 100), the last one created being selected                         *)

\* the editor a after the tool was chosen and the canvas was pressed and
\* released at (x, y); a text is given the content "ab"
CreatedWith(a, tool, x, y) ==
    on_canvas_release(on_canvas_click(set_tool(a, tool), x, y),
                      IF tool = "text" THEN "ab" ELSE "")

InitFrame ==
    /\ \E t1 \in DrawingTools :
          \/ Constructed(Collect(CreatedWith(InitApp(FALSE), t1, 100, 100)))
          \/ \E t2 \in DrawingTools :
                Constructed(Collect(CreatedWith(CreatedWith(InitApp(FALSE), t1, 100, 100),
                                                t2, 200, 100)))
    /\ pointer = PointerIdle
    /\ last = [op |-> "init", x |-> 0, y |-> 0, sel |-> 0]
    /\ steps = 0
    /\ env = [points |-> Points, tools |-> Tools, images |-> {FALSE},
              steps |-> MaxStepsFrame]

NextFrame ==
    \/ SetTool
    \/ PointerDown
    \/ PointerDrag
    \/ PointerUp

SpecFrame == InitFrame /\ [][NextFrame]_vars

\* C25: a drag changes at most one shape object, the selected one: every
\* other shape keeps its displayed and base attributes and its angle, and
\* with no shape selected the drag changes no shape and no drag bookkeeping
C25_DragChangesSelectedOnly ==
    [][ last'.op = "drag"
        => /\ shapes' = shapes
           /\ \A i \in DOMAIN obj : i # selected_shape => obj'[i] = obj[i]
           /\ selected_shape' = selected_shape
           /\ selected_shape = 0 => obj' = obj /\ drag_data' = drag_data ]_vars

\* C25: a drag has moved the selected shape of a sequence of two off the
\* places where shapes are created
C25_Witness ==
    /\ LastOp = "drag"
    /\ mode = "move"
    /\ Len(shapes) = 2
    /\ selected_shape \in ShapeIds
    /\ Position(obj[selected_shape]) \notin { <<Q(p[1]), Q(p[2])>> : p \in Points }

\* C25: a drag ran while a shape was being created and no shape was selected
DragWithoutSelection ==
    /\ LastOp = "drag"
    /\ mode = "create"
    /\ current_shape # 0
    /\ selected_shape = 0

-----------------------------------------------------------------------------
(* The shape sequence *)

\* the sequence q with one element, not in q, appended
AppendedTo(q, r) ==
    /\ Len(r) = Len(q) + 1
    /\ SubSeq(r, 1, Len(q)) = q
    /\ r[Len(r)] \notin Range(q)

\* C26: the shape sequence shrinks only through delete of the selected
\* shape and grows only by a press appending a new shape at the end; no
\* other handler removes a shape and none changes the order of the shapes
\* that remain
C26_SequenceAppendOrDelete ==
    [][ /\ last'.op = "delete" => shapes' = Without(shapes, {selected_shape})
        /\ last'.op = "click" => shapes' = shapes \/ AppendedTo(shapes, shapes')
        /\ last'.op \notin {"delete", "click"} => shapes' = shapes ]_vars

\* C26: a press has appended a second shape to the sequence
C26_Witness ==
    /\ LastOp = "click"
    /\ mode = "create"
    /\ Len(shapes) = 2
    /\ shapes[2] = current_shape
    /\ shapes[1] # current_shape

\* C26: a press has selected the older of two shapes, which is still first
OlderSelectedInPlace ==
    /\ LastOp = "click"
    /\ mode = "move"
    /\ Len(shapes) = 2
    /\ selected_shape = shapes[1]
    /\ last.sel # selected_shape

-----------------------------------------------------------------------------
(* Stacking order *)

\* the place of item x in the display list of the canvas, bottom first
PlaceOf(x) == CHOOSE k \in 1..Len(canvas.items) : canvas.items[k] = x

\* the shapes at places i < j of the sequence, both drawn, are stacked in
\* that order
StackedInOrder(i, j) ==
    (obj[shapes[i]].item \in CanvasItems /\ obj[shapes[j]].item \in CanvasItems)
        => PlaceOf(obj[shapes[i]].item) < PlaceOf(obj[shapes[j]].item)

\* C27: the stacking order of the shapes' items on the canvas equals the
\* order of the shape sequence, so that the shape a press selects among
\* those covering a point, the most recently created, is the one on top
C27_StackingIsCreationOrder ==
    \A i \in 1..Len(shapes) : \A j \in 1..Len(shapes) : i < j => StackedInOrder(i, j)

\* C27: the older of two shapes has been selected by a press and its item
\* is above the item of the newer one
C27_Witness ==
    /\ LastOp = "click"
    /\ Len(shapes) = 2
    /\ selected_shape = shapes[1]
    /\ obj[shapes[1]].item \in CanvasItems
    /\ obj[shapes[2]].item \in CanvasItems
    /\ PlaceOf(obj[shapes[2]].item) < PlaceOf(obj[shapes[1]].item)

-----------------------------------------------------------------------------
(* Mode and selection *)

\* the modes in which a gesture acts on the selected shape
SelectionModes == {"edit", "move", "resizing", "rotating"}

\* C28: whenever the mode is edit, move, resizing or rotating, a shape is
\* selected
C28_ModeImpliesSelection ==
    mode \in SelectionModes => selected_shape # 0

\* C28: the selected shape was deleted in edit mode, and the mode is still
\* edit with nothing selected
C28_Witness ==
    /\ LastOp = "delete"
    /\ last.sel # 0
    /\ selected_shape = 0
    /\ mode = "edit"

\* C29: whenever the mode is idle or create, no shape is selected
C29_IdleOrCreateImpliesNoSelection ==
    mode \in {"idle", "create"} => selected_shape = 0

\* C29: a shape is being created while an older shape, a text selected by a
\* double-click, is still selected
C29_Witness ==
    /\ LastOp = "click"
    /\ mode = "create"
    /\ current_shape # 0
    /\ selected_shape \in ShapeIds
    /\ selected_shape # current_shape
    /\ obj[selected_shape].kind = "text"

-----------------------------------------------------------------------------
(* Canvas items *)

\* the items the editor accounts for: the background image, the item of
\* each drawn shape of the sequence, the handles of the selected shape
AccountedItems ==
    (IF image_item # 0 THEN {image_item} ELSE {})
    \cup { obj[i].item : i \in { j \in ShapeIds : obj[j].item # 0 } }
    \cup (IF selected_shape # 0 THEN HandleItems(obj[selected_shape]) ELSE {})

\* C30: no canvas item is leaked: the items on the canvas are exactly the
\* background image, if any, one item for each drawn shape of the sequence
\* and the handle items of the selected shape; a shape that is not selected
\* holds no handles
C30_NoLeakedItems ==
    /\ CanvasItems = AccountedItems
    /\ \A i \in ShapeIds : i # selected_shape => obj[i].handles = <<>>

\* C30: with an image loaded, the selected one of two shapes was deleted,
\* and the canvas holds the image and the item of the other shape
C30_Witness ==
    /\ LastOp = "delete"
    /\ last.sel # 0
    /\ image_item # 0
    /\ Len(shapes) = 1
    /\ CanvasItems = {image_item, obj[shapes[1]].item}
====
